---- MODULE Spec2Model ----
(***************************************************************************)
(* Model of the metadata inventory service: the document store adapter     *)
(* (MetadataRepository), the read path and the create path of              *)
(* MetadataService, the Kafka producer functions and the consumer loop     *)
(* with its worker.  One canonical URL is followed: the store and the      *)
(* task messages are keyed by URL, and no operation reads or writes the    *)
(* record of another URL.                                                  *)
(*                                                                         *)
(* Every await on the store, the broker or the fetched site is one step.   *)
(* Code that runs between two awaits runs in the step of the first one.    *)
(*                                                                         *)
(* Spec follows the paths of the service and the queue; no time passes in  *)
(* it, so every timestamp it writes is the same reading of the clock.      *)
(* LiveSpec is Spec with consumers that keep running.  RepoSpec follows    *)
(* concurrent calls of the repository alone, with a clock that advances    *)
(* between the moment a call reads it and the moment its write lands.      *)
(* FetchSpec applies fetch_url to one outcome of the HTTP GET: a final     *)
(* response or an exception of the HTTP library.  UrlSpec applies          *)
(* normalize_url to a URL and then to its own result; a URL is the         *)
(* sequence of its lexemes.  LifeSpec follows lifespan from startup to     *)
(* shutdown together with the consumer tasks it starts and stops.          *)
(***************************************************************************)
EXTENDS Integers, Sequences, FiniteSets, TLC

\* ---- bounds of the model ----
\* consumer tasks created in one process, calls of start_consumer and
\* stop_consumer besides those of lifespan, messages one task handles
MaxTasks == 2
MaxCalls == 2
MaxHandled == 1
\* characters after the authority of a URL given to normalize_url
MaxTail == 4
\* final status codes given to fetch_url
MinStatus == 100
MaxStatus == 599
NumReaders == 2      \* get_metadata calls (each reader calls once)
NumCreators == 1     \* create_metadata calls
NumPartitions == 2   \* partitions of the main topic, one consumer each
MaxFaults == 1       \* publish/commit/store failures and process deaths,
                     \* injected in the runs with a single partition
NumCallers == 2      \* concurrent callers of the repository (RepoSpec)
MaxClock == 2        \* readings of the clock (RepoSpec)

\* ---- program constants ----
kafka_max_retries == 3
PERMANENT_STATUS_CODES_No451 == {400, 401, 403, 404, 405, 406, 410, 414}
PERMANENT_STATUS_CODES == {400, 401, 403, 404, 405, 406, 410, 414, 451}
TRANSIENT_STATUS_CODES == {408, 429, 500, 502, 503, 504}
\* "enable.auto.commit" of the consumer
AutoCommitOn == TRUE
EnableAutoCommit == FALSE
\* create_index("url", unique=True)
NoUniqueIndex == FALSE
UniqueUrlIndex == TRUE

Url == "https://new.example/"
Readers == 1..NumReaders
Creators == 1..NumCreators
Partitions == 1..NumPartitions
\* final status codes the fetched site answers with
Responses == {200, 404, 503}
NoDoc == [id |-> 0]
NoMsg == [off |-> 0]
Callers == 1..NumCallers
\* a caller of the repository that has made no call yet
NoCall == [op |-> "idle", arg |-> <<>>, now |-> 0, phase |-> "done",
           ret |-> [id |-> 0], mixed |-> FALSE]

\* where the lifecycle of the process is not followed
NoLife == [at |-> 0]

VARIABLES
    store,      \* the metadata collection: a set of documents
    log,        \* main topic: partition -> sequence of payloads
    committed,  \* main topic: partition -> committed offset of the group
    dlq,        \* dead letter topic: sequence of payloads
    pc,         \* consumer of a partition: where its loop stands
    pos,        \* consumer of a partition: offset of the last polled message
    cur,        \* consumer of a partition: the message being handled
    rpc,        \* reader: where its get_metadata call stands
    rret,       \* reader: what get_metadata returned
    cpc,        \* creator: where its create_metadata call stands
    cret,       \* creator: what create_metadata returned
    faults,     \* failures injected so far
    nparts,     \* partitions of the main topic in this run
    nMarked,    \* history: mark_pending calls that returned true
    nEnqueue,   \* history: enqueue calls issued by the read path
    ndeliv,     \* history: partition -> offset -> times the task was polled
                \* (a payload that is no task is counted once)
    clock,      \* what datetime.now() returns
    call,       \* caller of the repository: the call it is in
    given,      \* a function applied on its own: its input
    result,     \* a function applied on its own: what it gave
    life        \* the process: where lifespan stands, and its consumer tasks

vars == <<store, log, committed, dlq, pc, pos, cur, rpc, rret, cpc, cret,
          faults, nparts, nMarked, nEnqueue, ndeliv, clock, call,
          given, result, life>>

storeVars == <<store>>
queueVars == <<log, committed, dlq>>
consumerVars == <<pc, pos, cur, ndeliv>>
readerVars == <<rpc, rret, nMarked, nEnqueue>>
creatorVars == <<cpc, cret>>
fnVars == <<given, result, life>>
repoVars == <<clock, call, fnVars>>
pathVars == <<log, committed, dlq, pc, pos, cur, rpc, rret, cpc, cret,
              faults, nparts, nMarked, nEnqueue, ndeliv, fnVars>>

\* ------------------------------------------------------------------------
\* Fetcher
\* ------------------------------------------------------------------------
fetch_url(code) ==
    IF code \in PERMANENT_STATUS_CODES
    THEN [kind |-> "permanent", code |-> code]
    ELSE IF code \in TRANSIENT_STATUS_CODES
    THEN [kind |-> "transient", code |-> code]
    ELSE [kind |-> "ok", code |-> code]

\* str(exc) of a CollectionError
ErrorText(out) == <<"Failed to collect metadata", Url, "HTTP", out.code, out.kind>>
DatabaseErrorText == <<"Database error during", "upsert">>
CommitErrorText == <<"KafkaException", "commit">>

\* ------------------------------------------------------------------------
\* Document store adapter
\* ------------------------------------------------------------------------
DocsOf(st, url) == {d \in st : d.url = url}

\* find_one({"url": url}): one of the matching documents, or none
FindOne(st, url) == IF DocsOf(st, url) = {} THEN {NoDoc} ELSE DocsOf(st, url)

NewId(st) == Cardinality(st) + 1

\* the unique index idx_url_unique rejects a second document of a URL
DuplicateKey(st, url) == UniqueUrlIndex /\ DocsOf(st, url) # {}

Replace(st, d, e) == (st \ {d}) \cup {e}

UpsertSet_KeepsStatus(d, url, data, now) ==
    [d EXCEPT !.url = url, !.status_code = data, !.updated_at = now]

UpsertSet_SetsCreatedAt(d, url, data, now) ==
    [d EXCEPT !.url = url, !.status = "completed", !.status_code = data,
              !.updated_at = now, !.created_at = now]

\* $set of upsert on a matched document: **data, url, status, updated_at.
\* The data of the callers is the output of fetch_url (headers, cookies,
\* page_source, status_code); the status code stands for it.
UpsertSet(d, url, data, now) ==
    [d EXCEPT !.url = url, !.status = "completed", !.status_code = data,
              !.updated_at = now]

\* document inserted by upsert when nothing matched: $set and $setOnInsert
UpsertNew(st, url, data, now) ==
    [id |-> NewId(st), url |-> url, status |-> "completed",
     status_code |-> data, error |-> <<>>,
     created_at |-> now, updated_at |-> now]

MarkPendingFilter_CompletedOnly(d, url) ==
    d.url = url /\ d.status # "completed"

\* filter of mark_pending
MarkPendingFilter(d, url) ==
    d.url = url /\ d.status \notin {"completed", "pending"}

\* document inserted by mark_pending when nothing matched
MarkPendingNew(st, url, now) ==
    [id |-> NewId(st), url |-> url, status |-> "pending",
     status_code |-> 0, error |-> <<>>,
     created_at |-> now, updated_at |-> now]

\* mark_pending as one conditional write: the new store and the return value
mark_pending(st, url, now) ==
    LET m == {d \in st : MarkPendingFilter(d, url)} IN
    IF m # {}
    THEN LET d == CHOOSE x \in m : TRUE IN
         [store |-> Replace(st, d, [d EXCEPT !.status = "pending",
                                             !.updated_at = now]),
          ret |-> TRUE]
    ELSE IF DuplicateKey(st, url)
    THEN [store |-> st, ret |-> FALSE]
    ELSE [store |-> st \cup {MarkPendingNew(st, url, now)}, ret |-> TRUE]

MarkFailedFilter_NotCompleted(d, url) == d.url = url /\ d.status # "completed"

\* filter of mark_failed
MarkFailedFilter(d, url) == d.url = url

\* mark_failed: update_one without upsert on one matching document
mark_failed(st, url, reason, now) ==
    LET m == {d \in st : MarkFailedFilter(d, url)} IN
    IF m = {}
    THEN st
    ELSE LET d == CHOOSE x \in m : TRUE IN
         Replace(st, d, [d EXCEPT !.status = "failed", !.error = reason,
                                  !.updated_at = now])

StatusOf(st, url) ==
    IF DocsOf(st, url) = {} THEN "none"
    ELSE (CHOOSE x \in DocsOf(st, url) : TRUE).status

\* ------------------------------------------------------------------------
\* Queue producer
\* ------------------------------------------------------------------------
EnqueueMsg_Exhausted(url) == [url |-> url, retry_count |-> kafka_max_retries - 1]

\* payload of enqueue: json.dumps({"url": url})
EnqueueMsg(url) == [url |-> url]
RetryMsg_CountKept(url, retry_count) ==
    [url |-> url, retry_count |-> retry_count - 1]

\* payload of publish_with_retry
RetryMsg(url, retry_count) == [url |-> url, retry_count |-> retry_count]
DlqMsg(url, retry_count, error) ==
    [url |-> url, retry_count |-> retry_count, error |-> error]

\* payloads no producer of this service writes: not decodable, JSON that is
\* not an object, an object without url
JunkMsgs == {[raw |-> "not json"], [json |-> "[1]"], [url |-> ""]}

\* the main topic when the service starts: empty, or one foreign payload
\* waiting in the first partition
InitLogs ==
    {[p \in Partitions |-> <<>>]} \cup
    {[p \in Partitions |-> IF p = 1 THEN <<m>> ELSE <<>>] : m \in JunkMsgs}

\* produce() to the main topic: the partitioner picks the partition
ProduceMain(msg) ==
    \E p \in 1..nparts : log' = [log EXCEPT ![p] = Append(@, msg)]

\* whether one more failure may be injected after f of them
FaultsLeft(f) == nparts = 1 /\ f < MaxFaults

CanFail == FaultsLeft(faults)


\* upsert, first round trip: update_one found a document of the URL
upsert_update(st, url, data, now) ==
    LET d == CHOOSE x \in DocsOf(st, url) : TRUE IN
    Replace(st, d, UpsertSet(d, url, data, now))

\* upsert, nothing matched: the insert, or DuplicateKeyError when another
\* writer inserted first (the handler reads the record and returns its id)
upsert_insert(st, url, data, now) ==
    IF DuplicateKey(st, url) THEN st ELSE st \cup {UpsertNew(st, url, data, now)}

\* ------------------------------------------------------------------------
\* Read path: MetadataService.get_metadata
\* ------------------------------------------------------------------------
CacheHit_Never(doc) == FALSE

\* if doc and doc.get("status") == "completed"
CacheHit(doc) == doc # NoDoc /\ doc.status = "completed"

ReadFind(r) ==
    /\ rpc[r] = "idle"
    /\ \E doc \in FindOne(store, Url) :
         IF CacheHit(doc)
         THEN /\ rpc' = [rpc EXCEPT ![r] = "done"]
              /\ rret' = [rret EXCEPT ![r] = [record |-> doc, found |-> TRUE]]
         ELSE /\ rpc' = [rpc EXCEPT ![r] = "mark_pending"]
              /\ rret' = rret
    /\ UNCHANGED <<repoVars, nparts, storeVars, queueVars, consumerVars, creatorVars,
                   faults, nMarked, nEnqueue>>

ReadMarkPending(r) ==
    /\ rpc[r] = "mark_pending"
    /\ LET res == mark_pending(store, Url, clock) IN
         /\ store' = res.store
         /\ IF res.ret
            THEN /\ rpc' = [rpc EXCEPT ![r] = "enqueue"]
                 /\ nMarked' = nMarked + 1
                 /\ rret' = rret
            ELSE /\ rpc' = [rpc EXCEPT ![r] = "done"]
                 /\ nMarked' = nMarked
                 /\ rret' = [rret EXCEPT ![r] = [record |-> NoDoc, found |-> FALSE]]
    /\ UNCHANGED <<repoVars, nparts, queueVars, consumerVars, creatorVars, faults, nEnqueue>>

EnqueueFailure_Raised == [raised |-> "enqueue"]

\* how get_metadata ends when enqueue raised: except Exception logs the
\* error and the call goes on to return (None, False)
EnqueueFailure == [record |-> NoDoc, found |-> FALSE]

\* enqueue(url): RuntimeError without a producer, BufferError on a full buffer
ReadEnqueue(r) ==
    /\ rpc[r] = "enqueue"
    /\ nEnqueue' = nEnqueue + 1
    /\ \/ /\ ProduceMain(EnqueueMsg(Url))
          /\ faults' = faults
          /\ rret' = [rret EXCEPT ![r] = [record |-> NoDoc, found |-> FALSE]]
       \/ /\ CanFail
          /\ faults' = faults + 1
          /\ log' = log
          /\ rret' = [rret EXCEPT ![r] = EnqueueFailure]
    /\ rpc' = [rpc EXCEPT ![r] = "done"]
    /\ UNCHANGED <<repoVars, nparts, storeVars, committed, dlq, consumerVars, creatorVars,
                   nMarked>>

\* ------------------------------------------------------------------------
\* Create path: MetadataService.create_metadata
\* ------------------------------------------------------------------------
CreateRaises_Wrapped(out) == [kind |-> "raised", error |-> DatabaseErrorText]

\* how create_metadata ends when fetch_url raised: no handler stands around
\* the call, the exception leaves create_metadata as it is
CreateRaises(out) == [kind |-> "raised", error |-> ErrorText(out)]

\* await fetch_url(url), then await self._repo.upsert(url, data), first
\* round trip; an error of the fetcher propagates
CreateUpsert(k) ==
    /\ cpc[k] = "idle"
    /\ \E code \in Responses :
         LET out == fetch_url(code) IN
         IF out.kind # "ok"
         THEN /\ cpc' = [cpc EXCEPT ![k] = "done"]
              /\ cret' = [cret EXCEPT ![k] = CreateRaises(out)]
              /\ store' = store
         ELSE /\ cret' = [cret EXCEPT ![k] = [kind |-> "fetched", code |-> code]]
              /\ IF DocsOf(store, Url) # {}
                 THEN /\ store' = upsert_update(store, Url, code, clock)
                      /\ cpc' = [cpc EXCEPT ![k] = "find"]
                 ELSE /\ store' = store
                      /\ cpc' = [cpc EXCEPT ![k] = "upsert_insert"]
    /\ UNCHANGED <<repoVars, nparts, queueVars, consumerVars, readerVars, faults>>

CreateUpsertInsert(k) ==
    /\ cpc[k] = "upsert_insert"
    /\ store' = upsert_insert(store, Url, cret[k].code, clock)
    /\ cpc' = [cpc EXCEPT ![k] = "find"]
    /\ UNCHANGED <<repoVars, nparts, queueVars, consumerVars, readerVars, cret, faults>>

CreateFind(k) ==
    /\ cpc[k] = "find"
    /\ \E doc \in FindOne(store, Url) :
         cret' = [cret EXCEPT ![k] = [kind |-> "returned", record |-> doc]]
    /\ cpc' = [cpc EXCEPT ![k] = "done"]
    /\ UNCHANGED <<repoVars, nparts, storeVars, queueVars, consumerVars, readerVars, faults>>


\* ------------------------------------------------------------------------
\* Consumer loop and worker: _consume_loop, process_url
\* ------------------------------------------------------------------------
\* json.loads(msg.value().decode("utf-8")) returns
Decodable(m) == "raw" \notin DOMAIN m
\* the decoded value is a dict, so data.get("url") returns
IsObject(m) == "url" \in DOMAIN m
HasUrl(m) == IsObject(m) /\ m.url # ""
\* data.get raises AttributeError, which no except clause of the loop
\* catches: the while loop is left and the consumer is closed
LeavesLoop(m) == Decodable(m) /\ ~IsObject(m)
RetryCountOf(m) == IF "retry_count" \in DOMAIN m THEN m.retry_count ELSE 0

\* the handling of one polled message, as the loop's local variables
\* (url, retry_count, error_msg) and the calls it has made so far
NewHandling(off, m, d) ==
    [off |-> off, url |-> m.url, rc |-> RetryCountOf(m), delivery |-> d,
     kind |-> "none", error |-> <<>>, data |-> 0,
     main |-> <<>>, dead |-> <<>>, marks |-> 0, commits |-> 0, died |-> FALSE]

CountPoll(h, o) == IF o > Len(h) THEN Append(h, 1) ELSE [h EXCEPT ![o] = @ + 1]

RetriesExhausted_OffByOne(n) == n > kafka_max_retries

RetriesExhausted(n) == n >= kafka_max_retries

PermanentDlqCount_Incremented(retry_count) == retry_count + 1

\* retry count put on the dead letter after a permanent failure
PermanentDlqCount(retry_count) == retry_count

AfterDlq_CommitInTry(ok) == IF ok THEN "mark_failed" ELSE "poll"

AfterDlq_MarkAnyway(ok) == "mark_failed"

\* where the loop goes after publish_to_dlq returned (ok) or raised
AfterDlq(ok) == IF ok THEN "mark_failed" ELSE "commit"

\* where the loop goes after publish_with_retry returned (ok) or raised
AfterRetry(ok) == "commit"

\* publish_to_dlq and what follows it in the two DLQ branches; f counts the
\* failures injected up to the call
SendToDlq(c, h, retry_count, f) ==
    LET msg == DlqMsg(h.url, retry_count, h.error) IN
    /\ log' = log
    /\ \/ /\ dlq' = Append(dlq, msg)
          /\ faults' = f
          /\ pc' = [pc EXCEPT ![c] = AfterDlq(TRUE)]
          /\ cur' = [cur EXCEPT ![c] =
                 [h EXCEPT !.dead = Append(@, [msg |-> msg, ok |-> TRUE])]]
       \/ /\ FaultsLeft(f)
          /\ dlq' = dlq
          /\ faults' = f + 1
          /\ pc' = [pc EXCEPT ![c] = AfterDlq(FALSE)]
          /\ cur' = [cur EXCEPT ![c] =
                 [h EXCEPT !.dead = Append(@, [msg |-> msg, ok |-> FALSE])]]

\* except PermanentCollectionError
HandlePermanent(c, h, err, f) ==
    LET h1 == [h EXCEPT !.kind = "permanent", !.error = err] IN
    SendToDlq(c, h1, PermanentDlqCount(h.rc), f)

\* except (TransientCollectionError, Exception)
HandleTransient(c, h, kind, err, f) ==
    LET n == h.rc + 1
        h1 == [h EXCEPT !.kind = kind, !.error = err]
        msg == RetryMsg(h.url, n) IN
    IF RetriesExhausted(n)
    THEN SendToDlq(c, h1, n, f)
    ELSE /\ dlq' = dlq
         /\ \/ /\ ProduceMain(msg)
               /\ faults' = f
               /\ pc' = [pc EXCEPT ![c] = AfterRetry(TRUE)]
               /\ cur' = [cur EXCEPT ![c] =
                      [h1 EXCEPT !.main = Append(@, [msg |-> msg, ok |-> TRUE])]]
            \/ /\ FaultsLeft(f)
               /\ log' = log
               /\ faults' = f + 1
               /\ pc' = [pc EXCEPT ![c] = AfterRetry(FALSE)]
               /\ cur' = [cur EXCEPT ![c] =
                      [h1 EXCEPT !.main = Append(@, [msg |-> msg, ok |-> FALSE])]]

ExceptClause_DatabasePermanent(exc) ==
    IF exc \in {"PermanentCollectionError", "DatabaseError"}
    THEN "permanent" ELSE "transient"

\* the except clause that takes an exception raised in the try block of a
\* handling: PermanentCollectionError has its own clause, and the clause
\* (TransientCollectionError, Exception) takes every other class
ExceptClause(exc) ==
    IF exc = "PermanentCollectionError" THEN "permanent" ELSE "transient"

\* the try block raised exc: kind names the step that failed
Handle(c, h, exc, kind, err, f) ==
    IF ExceptClause(exc) = "permanent"
    THEN HandlePermanent(c, h, err, f)
    ELSE HandleTransient(c, h, kind, err, f)

\* msg = consumer.poll(); decode; continue on a payload without url;
\* process_url: await fetch_url(url), and the except block of a failed fetch
Poll(c) ==
    /\ c <= nparts
    /\ pc[c] = "poll"
    /\ pos[c] < Len(log[c])
    /\ LET o == pos[c] + 1
           m == log[c][o]
           h == NewHandling(o, m, CountPoll(ndeliv[c], o)[o]) IN
         /\ pos' = [pos EXCEPT ![c] = o]
         /\ ndeliv' = IF HasUrl(m) \/ o > Len(ndeliv[c])
                      THEN [ndeliv EXCEPT ![c] = CountPoll(@, o)] ELSE ndeliv
         /\ committed' = IF EnableAutoCommit
                         THEN [committed EXCEPT ![c] = o] ELSE committed
         /\ IF HasUrl(m)
            THEN \E code \in Responses :
                   LET out == fetch_url(code) IN
                   CASE out.kind = "ok" ->
                          /\ pc' = [pc EXCEPT ![c] = "upsert"]
                          /\ cur' = [cur EXCEPT ![c] = [h EXCEPT !.data = code]]
                          /\ UNCHANGED <<log, dlq, faults>>
                     [] out.kind = "permanent" ->
                          HandlePermanent(c, h, ErrorText(out), faults)
                     [] out.kind = "transient" ->
                          HandleTransient(c, h, "transient", ErrorText(out), faults)
            ELSE /\ pc' = IF LeavesLoop(m) THEN [pc EXCEPT ![c] = "dead"] ELSE pc
                 /\ UNCHANGED <<cur, log, dlq, faults>>
    /\ UNCHANGED <<repoVars, nparts, storeVars, readerVars, creatorVars>>

\* process_url: await _repo.upsert(url, data). update_one matches the record
\* of the URL; when nothing matches, the insert is a second step, as in the
\* create path. A task is published only after mark_pending wrote the record
\* and records are never deleted, so the worker's update finds a record.
Upsert(c) ==
    /\ pc[c] \in {"upsert", "upsert_insert"}
    /\ \/ /\ pc[c] = "upsert"
          /\ DocsOf(store, cur[c].url) # {}
          /\ store' = upsert_update(store, cur[c].url, cur[c].data, clock)
          /\ pc' = [pc EXCEPT ![c] = "commit_success"]
          /\ cur' = [cur EXCEPT ![c].kind = "ok"]
          /\ UNCHANGED <<log, dlq, faults>>
       \/ /\ pc[c] = "upsert"
          /\ DocsOf(store, cur[c].url) = {}
          /\ pc' = [pc EXCEPT ![c] = "upsert_insert"]
          /\ UNCHANGED <<store, cur, log, dlq, faults>>
       \/ /\ pc[c] = "upsert_insert"
          /\ store' = upsert_insert(store, cur[c].url, cur[c].data, clock)
          /\ pc' = [pc EXCEPT ![c] = "commit_success"]
          /\ cur' = [cur EXCEPT ![c].kind = "ok"]
          /\ UNCHANGED <<log, dlq, faults>>
       \/ \* PyMongoError -> DatabaseError, caught as an unclassified exception
          /\ pc[c] = "upsert"
          /\ CanFail
          /\ store' = store
          /\ Handle(c, cur[c], "DatabaseError", "store_failure",
                    DatabaseErrorText, faults + 1)
    /\ UNCHANGED <<repoVars, nparts, committed, pos, ndeliv, readerVars, creatorVars>>

\* consumer.commit(message=msg): the committed offset is the one after msg
CommitOffset(c) == [committed EXCEPT ![c] = cur[c].off]

\* consumer.commit(message=msg) after process_url returned; it stands in the
\* try block, so its exception is handled as an unclassified one
CommitSuccess(c) ==
    /\ pc[c] = "commit_success"
    /\ \/ /\ committed' = CommitOffset(c)
          /\ pc' = [pc EXCEPT ![c] = "poll"]
          /\ cur' = [cur EXCEPT ![c].commits = @ + 1]
          /\ UNCHANGED <<log, dlq, faults>>
       \/ /\ CanFail
          /\ committed' = committed
          /\ Handle(c, cur[c], "KafkaException", "commit_failure",
                    CommitErrorText, faults + 1)
    /\ UNCHANGED <<repoVars, nparts, storeVars, pos, ndeliv, readerVars, creatorVars>>

\* await mark_failed_in_db(url, error_msg)
MarkFailed(c) ==
    /\ pc[c] = "mark_failed"
    /\ store' = mark_failed(store, cur[c].url, cur[c].error, clock)
    /\ pc' = [pc EXCEPT ![c] = "commit"]
    /\ cur' = [cur EXCEPT ![c].marks = @ + 1]
    /\ UNCHANGED <<repoVars, nparts, queueVars, pos, ndeliv, readerVars, creatorVars, faults>>

\* consumer.commit(message=msg) after the except blocks; its exception
\* leaves the while loop and the consumer is closed
Commit(c) ==
    /\ pc[c] = "commit"
    /\ \/ /\ committed' = CommitOffset(c)
          /\ pc' = [pc EXCEPT ![c] = "poll"]
          /\ cur' = [cur EXCEPT ![c].commits = @ + 1]
          /\ faults' = faults
       \/ /\ CanFail
          /\ committed' = committed
          /\ pc' = [pc EXCEPT ![c] = "dead"]
          /\ cur' = cur
          /\ faults' = faults + 1
    /\ UNCHANGED <<repoVars, nparts, storeVars, log, dlq, pos, ndeliv, readerVars, creatorVars>>

\* the process dies or the task is cancelled while a message is handled;
\* the group's next consumer of the partition starts at the committed offset
Crash(c) ==
    /\ CanFail
    /\ pc[c] \notin {"poll", "dead"}
    /\ faults' = faults + 1
    /\ pc' = [pc EXCEPT ![c] = "poll"]
    /\ pos' = [pos EXCEPT ![c] = committed[c]]
    /\ cur' = [cur EXCEPT ![c].died = TRUE]
    /\ UNCHANGED <<repoVars, nparts, storeVars, queueVars, ndeliv, readerVars, creatorVars>>

\* the service is started again: the consumer resumes at the committed
\* offset; a handling the loop had left uncommitted ended with the loop
Restart(c) ==
    /\ pc[c] = "dead"
    /\ pc' = [pc EXCEPT ![c] = "poll"]
    /\ pos' = [pos EXCEPT ![c] = committed[c]]
    /\ cur' = IF committed[c] < cur[c].off
              THEN [cur EXCEPT ![c].died = TRUE] ELSE cur
    /\ UNCHANGED <<repoVars, nparts, storeVars, queueVars, ndeliv, readerVars, creatorVars, faults>>

\* ------------------------------------------------------------------------
Init ==
    /\ store = {}
    /\ log \in InitLogs
    /\ committed = [p \in Partitions |-> 0]
    /\ dlq = <<>>
    /\ pc = [p \in Partitions |-> "poll"]
    /\ pos = [p \in Partitions |-> 0]
    /\ cur = [p \in Partitions |-> NoMsg]
    /\ rpc = [r \in Readers |-> "idle"]
    /\ rret = [r \in Readers |-> <<>>]
    /\ cpc = [k \in Creators |-> "idle"]
    /\ cret = [k \in Creators |-> <<>>]
    /\ faults = 0
    /\ nparts \in Partitions
    /\ nMarked = 0
    /\ nEnqueue = 0
    /\ ndeliv = [p \in Partitions |-> <<>>]
    /\ clock = 0
    /\ call = [i \in Callers |-> NoCall]
    /\ given = <<>>
    /\ result = <<>>
    /\ life = NoLife

Next ==
    \/ \E r \in Readers : ReadFind(r) \/ ReadMarkPending(r) \/ ReadEnqueue(r)
    \/ \E k \in Creators :
         CreateUpsert(k) \/ CreateUpsertInsert(k) \/ CreateFind(k)
    \/ \E c \in Partitions :
         \/ Poll(c) \/ Upsert(c) \/ CommitSuccess(c) \/ MarkFailed(c)
         \/ Commit(c) \/ Crash(c) \/ Restart(c)

Spec == Init /\ [][Next]_vars

\* one iteration step of the consumer loop of partition c: the loop runs as
\* an asyncio task of its own and polls until it is stopped; a consumer that
\* died is started again
ConsumerStep(c) ==
    Poll(c) \/ Upsert(c) \/ CommitSuccess(c) \/ MarkFailed(c) \/ Commit(c)
    \/ Restart(c)

\* the system with consumers that keep running
LiveSpec == Spec /\ \A c \in Partitions : WF_vars(ConsumerStep(c))


\* ------------------------------------------------------------------------
\* The repository under concurrent callers, with a running clock
\* ------------------------------------------------------------------------
\* data the callers hand to upsert
FieldSets == {200, 204}
\* reasons the consumer hands to mark_failed
Reasons == {ErrorText(fetch_url(404)), DatabaseErrorText}

\* the collection before the calls: empty, or the record of the URL as
\* mark_pending, mark_failed or upsert left it
InitStores ==
    {{}, {MarkPendingNew({}, Url, 0)}, {UpsertNew({}, Url, 200, 0)},
     mark_failed({MarkPendingNew({}, Url, 0)}, Url, DatabaseErrorText, 0)}

\* a call that starts: now = datetime.now(timezone.utc) is evaluated before
\* the awaited write
NewCall(op, arg, now) ==
    [op |-> op, arg |-> arg, now |-> now,
     phase |-> IF op = "upsert" THEN "update" ELSE "write",
     ret |-> NoDoc, mixed |-> FALSE]

CanBegin(i) == call[i].phase = "done"

\* the calls after caller i moved to c: an upsert call of another caller that
\* is under way has met a write that changed the collection
Others(i, c, st) ==
    [j \in Callers |->
        IF j = i THEN c
        ELSE IF st # store /\ call[j].op = "upsert" /\ call[j].phase # "done"
        THEN [call[j] EXCEPT !.mixed = TRUE]
        ELSE call[j]]

Tick ==
    /\ clock < MaxClock
    /\ clock' = clock + 1
    /\ UNCHANGED <<store, call, pathVars>>

BeginUpsert(i) ==
    /\ CanBegin(i)
    /\ \E data \in FieldSets :
         call' = [call EXCEPT ![i] = NewCall("upsert", data, clock)]
    /\ UNCHANGED <<store, clock, pathVars>>

BeginMarkPending(i) ==
    /\ CanBegin(i)
    /\ call' = [call EXCEPT ![i] = NewCall("mark_pending", <<>>, clock)]
    /\ UNCHANGED <<store, clock, pathVars>>

BeginMarkFailed(i) ==
    /\ CanBegin(i)
    /\ \E reason \in Reasons :
         call' = [call EXCEPT ![i] = NewCall("mark_failed", reason, clock)]
    /\ UNCHANGED <<store, clock, pathVars>>

\* upsert: update_one(..., upsert=True) on a collection that holds a record
\* of the URL, or finds none
UpsertUpdate(i) ==
    /\ call[i].op = "upsert" /\ call[i].phase = "update"
    /\ IF DocsOf(store, Url) # {}
       THEN /\ store' = upsert_update(store, Url, call[i].arg, call[i].now)
            /\ call' = Others(i, [call[i] EXCEPT !.phase = "find"], store')
       ELSE /\ store' = store
            /\ call' = [call EXCEPT ![i].phase = "insert"]
    /\ UNCHANGED <<clock, pathVars>>

\* upsert: the insert of update_one(..., upsert=True), or DuplicateKeyError
UpsertInsert(i) ==
    /\ call[i].op = "upsert" /\ call[i].phase = "insert"
    /\ store' = upsert_insert(store, Url, call[i].arg, call[i].now)
    /\ call' = Others(i, [call[i] EXCEPT !.phase = "find"], store')
    /\ UNCHANGED <<clock, pathVars>>

\* find_by_url right after upsert returned
FindByUrl(i) ==
    /\ call[i].op = "upsert" /\ call[i].phase = "find"
    /\ \E doc \in FindOne(store, Url) :
         call' = [call EXCEPT ![i] = [@ EXCEPT !.phase = "done", !.ret = doc]]
    /\ UNCHANGED <<store, clock, pathVars>>

MarkPendingWrite(i) ==
    /\ call[i].op = "mark_pending" /\ call[i].phase = "write"
    /\ LET res == mark_pending(store, Url, call[i].now) IN
         /\ store' = res.store
         /\ call' = Others(i, [call[i] EXCEPT !.phase = "done", !.ret = res.ret],
                            store')
    /\ UNCHANGED <<clock, pathVars>>

MarkFailedWrite(i) ==
    /\ call[i].op = "mark_failed" /\ call[i].phase = "write"
    /\ store' = mark_failed(store, Url, call[i].arg, call[i].now)
    /\ call' = Others(i, [call[i] EXCEPT !.phase = "done"], store')
    /\ UNCHANGED <<clock, pathVars>>

RepoInit ==
    /\ store \in InitStores
    /\ log = [p \in Partitions |-> <<>>]
    /\ committed = [p \in Partitions |-> 0]
    /\ dlq = <<>>
    /\ pc = [p \in Partitions |-> "poll"]
    /\ pos = [p \in Partitions |-> 0]
    /\ cur = [p \in Partitions |-> NoMsg]
    /\ rpc = [r \in Readers |-> "idle"]
    /\ rret = [r \in Readers |-> <<>>]
    /\ cpc = [k \in Creators |-> "idle"]
    /\ cret = [k \in Creators |-> <<>>]
    /\ faults = 0
    /\ nparts = 1
    /\ nMarked = 0
    /\ nEnqueue = 0
    /\ ndeliv = [p \in Partitions |-> <<>>]
    /\ clock = 0
    /\ call = [i \in Callers |-> NoCall]
    /\ given = <<>>
    /\ result = <<>>
    /\ life = NoLife

RepoNext ==
    \/ Tick
    \/ \E i \in Callers :
         \/ BeginUpsert(i) \/ BeginMarkPending(i) \/ BeginMarkFailed(i)
         \/ UpsertUpdate(i) \/ UpsertInsert(i) \/ FindByUrl(i)
         \/ MarkPendingWrite(i) \/ MarkFailedWrite(i)

RepoSpec == RepoInit /\ [][RepoNext]_vars

\* ------------------------------------------------------------------------
\* Properties
\* ------------------------------------------------------------------------
Record == CHOOSE d \in DocsOf(store, Url) : TRUE
Status == StatusOf(store, Url)
NotFound == [record |-> NoDoc, found |-> FALSE]

\* the consumer of partition c stands between the poll of a message with a
\* url and the commit that ends its handling
InFlight(c) == pc[c] \in {"upsert", "upsert_insert", "commit_success", "mark_failed", "commit"}

\* the consumer of partition c handled its last message to the end
Finished(c) == cur[c].off > 0 /\ pc[c] = "poll" /\ ~cur[c].died

\* the except block of transient and unclassified failures handled it
TransientKinds == {"transient", "store_failure", "commit_failure"}

\* only get_metadata calls have run: no create call, no message handled
OnlyReads ==
    /\ \A k \in Creators : cpc[k] = "idle"
    /\ \A c \in Partitions : cur[c] = NoMsg

\* C1: concurrent get_metadata calls for a URL without a record: every call
\* returns (none, false); once all have returned, exactly one mark_pending
\* returned true, exactly one enqueue was issued and the store holds exactly
\* one record of the URL, with status pending.
C1_SingleFlight ==
    OnlyReads =>
        /\ nMarked <= 1
        /\ nEnqueue <= nMarked
        /\ \A r \in Readers : rpc[r] = "done" => rret[r] = NotFound
        /\ (\A r \in Readers : rpc[r] = "done") =>
              /\ nMarked = 1
              /\ nEnqueue = 1
              /\ Cardinality(DocsOf(store, Url)) = 1
              /\ Status = "pending"

C1_Witness ==
    /\ OnlyReads
    /\ \A r \in Readers : rpc[r] = "done"
    /\ Cardinality(Readers) >= 2
    /\ nEnqueue = 1

\* C2: the store holds at most one record per URL, whatever upsert,
\* mark_pending and mark_failed calls of the create path, the read path and
\* the workers have run.
C2_OneRecordPerUrl ==
    \A d \in store : \A e \in store : d.url = e.url => d = e

C2_Witness ==
    /\ Cardinality(store) = 1
    /\ nMarked >= 1
    /\ \E r \in Readers : rpc[r] = "done" /\ rret[r] = NotFound
    /\ \E k \in Creators : cpc[k] = "done" /\ cret[k].kind = "returned"
    /\ \E c \in Partitions : cur[c].off > 0 /\ cur[c].marks >= 1

\* C3: a record whose status is completed keeps status completed in every
\* step of the system.
C3_CompletedIsFinal ==
    [][\A d \in store : d.status = "completed" =>
          \A e \in store' : e.id = d.id => e.status = "completed"]_vars

\* a task of the URL lies uncommitted on the main topic
TaskOnTopic ==
    \E p \in Partitions : \E o \in 1..Len(log[p]) :
        o > committed[p] /\ HasUrl(log[p][o]) /\ log[p][o].url = Url

\* C4: each record with status pending has a task on the main topic or in
\* the hands of a worker; a get_metadata call that marked the record and has
\* not yet called enqueue counts as scheduling in flight.
C4_PendingHasTask ==
    Status = "pending" =>
        \/ TaskOnTopic
        \/ \E c \in Partitions : InFlight(c) /\ cur[c].url = Url
        \/ \E r \in Readers : rpc[r] = "enqueue"

\* C5: a message handed to process_url and handled to the end has had its
\* offset committed exactly once, and not before its outcome was decided,
\* also when publish_with_retry or publish_to_dlq raised.
C5_CommitOnce ==
    \A c \in Partitions :
        /\ InFlight(c) => cur[c].commits = 0
        /\ Finished(c) => cur[c].commits = 1 /\ committed[c] >= cur[c].off

C5_Witness ==
    \E c \in Partitions :
        /\ Finished(c)
        /\ cur[c].commits = 1
        /\ \/ Len(cur[c].dead) = 1 /\ ~cur[c].dead[1].ok
           \/ Len(cur[c].main) = 1 /\ ~cur[c].main[1].ok

\* C6: while a message is handled its offset is not committed, and when the
\* consumer dies during the handling, the offset stays uncommitted and the
\* partition is read again from before the message.
C6_NoCommitBeforeDisposition ==
    \A c \in Partitions :
        /\ InFlight(c) => committed[c] < cur[c].off
        /\ (cur[c].off > 0 /\ cur[c].died /\ pc[c] = "poll") =>
              /\ committed[c] < cur[c].off
              /\ pos[c] < cur[c].off
              /\ cur[c].commits = 0

\* the consumer died after the upsert of process_url and before the commit
C6_Witness ==
    \E c \in Partitions :
        /\ pc[c] = "poll"
        /\ cur[c].off > 0 /\ cur[c].died /\ cur[c].kind = "ok"
        /\ Status = "completed"

Equivalent(d, e) ==
    d.url = e.url /\ d.status = e.status /\ d.status_code = e.status_code

\* the record one processing of the task makes of the pending record
SingleProcessing(url, data) ==
    [MarkPendingNew({}, url, 0) EXCEPT !.status = "completed", !.status_code = data]

TransientHandled(c) ==
    /\ cur[c].off > 0
    /\ cur[c].kind \in TransientKinds
    /\ pc[c] = "commit" \/ Finished(c)

\* C8 as stated: with n = r + 1 < max_retries one publish of {url, n} to the
\* main topic, none to the DLQ and no mark_failed; otherwise one DLQ publish,
\* none to the main topic, and the record is marked failed.
C8_Original ==
    \A c \in Partitions :
        TransientHandled(c) =>
            LET h == cur[c]
                n == h.rc + 1 IN
            IF n < kafka_max_retries
            THEN /\ Len(h.main) = 1 /\ h.main[1].msg = RetryMsg(h.url, n)
                 /\ h.dead = <<>> /\ h.marks = 0
            ELSE /\ Len(h.dead) = 1 /\ h.dead[1].msg = DlqMsg(h.url, n, h.error)
                 /\ h.main = <<>> /\ h.marks = 1

\* C8, amended: with n = r + 1 < max_retries one publish_with_retry call with
\* {url, n}, no DLQ publish and no mark_failed; otherwise one publish_to_dlq
\* call with retry count n, no publish to the main topic, and mark_failed is
\* called exactly when publish_to_dlq returned without raising.
C8_TransientDisposition ==
    \A c \in Partitions :
        TransientHandled(c) =>
            LET h == cur[c]
                n == h.rc + 1 IN
            IF n < kafka_max_retries
            THEN /\ Len(h.main) = 1 /\ h.main[1].msg = RetryMsg(h.url, n)
                 /\ h.dead = <<>> /\ h.marks = 0
            ELSE /\ Len(h.dead) = 1 /\ h.dead[1].msg = DlqMsg(h.url, n, h.error)
                 /\ h.main = <<>>
                 /\ h.marks = IF h.dead[1].ok THEN 1 ELSE 0

C8_Witness ==
    \E c \in Partitions :
        /\ Finished(c)
        /\ cur[c].kind \in TransientKinds
        /\ cur[c].rc + 1 >= kafka_max_retries
        /\ cur[c].dead[1].ok
        /\ cur[c].marks = 1
        /\ Status = "failed"

Slots == UNION {{<<p, o>> : o \in 1..Len(log[p])} : p \in Partitions}

\* messages publish_with_retry put on the main topic with retry count k
RetryPublished(k) ==
    Cardinality({s \in Slots : "retry_count" \in DOMAIN log[s[1]][s[2]]
                               /\ log[s[1]][s[2]].retry_count = k})

RetriesPublished ==
    Cardinality({s \in Slots : "retry_count" \in DOMAIN log[s[1]][s[2]]})

\* times a task of the URL was handed to process_url
Processings ==
    Cardinality({s \in Slots : HasUrl(log[s[1]][s[2]]) /\ s[2] <= pos[s[1]]})

\* one get_metadata call enqueued the URL once, every fetch answered 503,
\* nothing else failed or wrote the record, and all messages are handled
Chain503Ended ==
    /\ faults = 0
    /\ nMarked = 1
    /\ nEnqueue = 1
    /\ \A k \in Creators : cpc[k] = "idle"
    /\ \A c \in Partitions : pc[c] = "poll" /\ pos[c] = Len(log[c])
    /\ Len(dlq) >= 1
    /\ dlq[1].error = ErrorText(fetch_url(503))

\* C9 as stated: three re-publishes with retry counts 1, 2 and 3, then one
\* DLQ message on the fourth processing, and the record ends failed.
C9_Original ==
    Chain503Ended =>
        /\ RetryPublished(1) = 1 /\ RetryPublished(2) = 1 /\ RetryPublished(3) = 1
        /\ RetriesPublished = 3
        /\ Len(dlq) = 1
        /\ Processings = 4
        /\ Status = "failed"

\* C9, amended: with max_retries = 3, two re-publishes with retry counts 1
\* and 2, then one DLQ message with retry count 3 on the third processing,
\* and the record ends failed.
C9_RetriesExhausted ==
    Chain503Ended =>
        /\ RetryPublished(1) = 1 /\ RetryPublished(2) = 1
        /\ RetriesPublished = 2
        /\ Len(dlq) = 1 /\ dlq[1].retry_count = 3
        /\ Processings = 3
        /\ Status = "failed"

C9_Witness == Chain503Ended /\ kafka_max_retries = 3 /\ Status = "failed"

PermanentErrors == {ErrorText(fetch_url(code)) : code \in PERMANENT_STATUS_CODES}

\* C10 as stated: after a permanent failure one DLQ message with the retry
\* count of the message and the error text, the record marked failed, the
\* offset committed, nothing published to the main topic.
C10_Original ==
    \A c \in Partitions :
        (Finished(c) /\ cur[c].kind = "permanent") =>
            LET h == cur[c] IN
            /\ Len(h.dead) = 1 /\ h.dead[1].msg = DlqMsg(h.url, h.rc, h.error)
            /\ h.error \in PermanentErrors
            /\ h.main = <<>>
            /\ h.commits = 1
            /\ h.marks = 1

\* C10, amended: after a permanent failure one publish_to_dlq call with the
\* retry count of the message (not incremented) and the error text, nothing
\* published to the main topic, the offset committed, and mark_failed is
\* called exactly when publish_to_dlq returned without raising.
C10_PermanentDisposition ==
    \A c \in Partitions :
        (Finished(c) /\ cur[c].kind = "permanent") =>
            LET h == cur[c] IN
            /\ Len(h.dead) = 1 /\ h.dead[1].msg = DlqMsg(h.url, h.rc, h.error)
            /\ h.error \in PermanentErrors
            /\ h.dead[1].ok => \E i \in 1..Len(dlq) : dlq[i] = h.dead[1].msg
            /\ h.main = <<>>
            /\ h.commits = 1
            /\ h.marks = IF h.dead[1].ok THEN 1 ELSE 0

C10_Witness ==
    \E c \in Partitions :
        /\ Finished(c)
        /\ cur[c].kind = "permanent"
        /\ cur[c].rc = 1
        /\ cur[c].dead[1].ok
        /\ cur[c].marks = 1
        /\ Status = "failed"

\* one get_metadata call enqueued the URL once, a fetch of the task failed
\* transiently and the task was published again, the second fetch (of the
\* published task) succeeded, nothing else failed, and all messages are
\* handled
RetriedThenCollected(c) ==
    /\ faults = 0
    /\ nMarked = 1
    /\ nEnqueue = 1
    /\ \A p \in Partitions : pc[p] = "poll" /\ pos[p] = Len(log[p])
    /\ RetriesPublished >= 1
    /\ Processings = 2
    /\ cur[c].off > 0
    /\ "retry_count" \in DOMAIN log[c][cur[c].off]
    /\ cur[c].kind = "ok"

\* C11: a URL enqueued by the read path whose first fetch fails transiently
\* and whose second fetch succeeds: the task was published again exactly
\* once, with retry_count = 1, the second processing
\* committed its offset after the upsert, the record is completed with the
\* fetched data or with the data of a later create call, and the DLQ is and
\* stays empty.
C11_RetryThenSuccess ==
    \A c \in Partitions :
        RetriedThenCollected(c) =>
            /\ RetryPublished(1) = 1
            /\ RetriesPublished = 1
            /\ cur[c].rc = 1
            /\ cur[c].commits = 1 /\ committed[c] = cur[c].off
            /\ cur[c].main = <<>> /\ cur[c].dead = <<>> /\ cur[c].marks = 0
            /\ Cardinality(DocsOf(store, Url)) = 1
            /\ Status = "completed"
            /\ dlq = <<>>

C11_Witness ==
    \E c \in Partitions :
        /\ RetriedThenCollected(c)
        /\ Status = "completed"
        /\ Record.status_code = cur[c].data
        /\ cur[c].rc = 1


\* a task the read path enqueued for the URL lies on the main topic
EnqueuedByRead ==
    \E p \in Partitions : \E o \in 1..Len(log[p]) : log[p][o] = EnqueueMsg(Url)

\* no process_url call has raised: every fetch of the target succeeded and
\* the store took the write
ProcessUrlReturns ==
    \A c \in Partitions :
        cur[c].off > 0 => cur[c].kind \notin {"permanent", "transient", "store_failure"}

\* no consumer loop has been left for good: a consumer takes its steps, and
\* one whose loop was left by an exception is started again and gets past
\* the message
ConsumersRun ==
    \A c \in Partitions :
        (pc[c] = "dead" /\ pos[c] > 0) => ~LeavesLoop(log[c][pos[c]])

\* C12: with consumers that keep running, and as long as every fetch of the
\* target succeeds (no process_url call raises), a URL the read path has
\* enqueued eventually has a record with status completed.
C12_EnqueuedIsCollected ==
    [](ProcessUrlReturns /\ ConsumersRun)
        => (EnqueuedByRead ~> Status = "completed")

C12_Witness ==
    /\ EnqueuedByRead
    /\ ProcessUrlReturns
    /\ \A k \in Creators : cpc[k] = "idle"
    /\ \E c \in Partitions : Finished(c) /\ cur[c].kind = "ok"
    /\ Status = "completed"


\* the record of the URL is pending and no task of it is on the main topic,
\* in the hands of a worker or about to be enqueued
PendingTaskLost ==
    /\ Status = "pending"
    /\ ~TaskOnTopic
    /\ \A c \in Partitions : ~(InFlight(c) /\ cur[c].url = Url)
    /\ \A r \in Readers : rpc[r] # "enqueue"

\* C13: a get_metadata call that reaches mark_pending while the record is
\* pending and its task is lost goes on to issue an enqueue for the URL.
C13_LostTaskRescheduled ==
    [][\A r \in Readers :
          (PendingTaskLost /\ rpc[r] = "mark_pending" /\ rpc'[r] # "mark_pending")
              => rpc'[r] = "enqueue"]_vars


\* C14: when enqueue raises after mark_pending returned true, get_metadata
\* does not raise and returns (none, false); the step changes nothing in the
\* store, so the record keeps status pending, and nothing is published.
C14_EnqueueFailureSwallowed ==
    [][\A r \in Readers :
          (rpc[r] = "enqueue" /\ rpc'[r] = "done" /\ log' = log) =>
              /\ rret'[r] = NotFound
              /\ store' = store
              /\ dlq' = dlq /\ committed' = committed]_vars

C14_Witness ==
    /\ OnlyReads
    /\ nMarked = 1 /\ nEnqueue = 1
    /\ faults = 1
    /\ \A p \in Partitions : log[p] = <<>>
    /\ \E r \in Readers : rpc[r] = "done" /\ rret[r] = NotFound
    /\ \A r \in Readers : rpc[r] \in {"idle", "done"}
    /\ Status = "pending"


\* caller i's write of the given operation happens in this step
Writes(i, op) ==
    call[i].op = op /\ call[i].phase = "write" /\ call'[i].phase = "done"

RecordAfter == CHOOSE d \in DocsOf(store', Url) : TRUE

\* C15: mark_pending(url) is one conditional write. With no record of the
\* URL it inserts a pending record and returns true; with a failed record it
\* makes it pending and returns true; with a completed or pending record
\* (the filter matches nothing and the insert hits the unique index) it
\* returns false and leaves the collection unchanged.
C15_MarkPendingConditional ==
    [][\A i \in Callers :
          Writes(i, "mark_pending") =>
              LET st == StatusOf(store, Url) IN
              /\ call'[i].ret = (st \in {"none", "failed"})
              /\ st = "none" =>
                    /\ Cardinality(store') = 1
                    /\ RecordAfter.url = Url
                    /\ RecordAfter.status = "pending"
                    /\ RecordAfter.created_at = call[i].now
                    /\ RecordAfter.updated_at = call[i].now
              /\ st = "failed" =>
                    store' = {[Record EXCEPT !.status = "pending",
                                             !.updated_at = call[i].now]}
              /\ st \in {"completed", "pending"} => store' = store]_vars

\* mark_pending has returned true on a failed record, and false to the other
\* caller on the record that is pending
C15_Witness ==
    /\ call[1].op = "mark_pending" /\ call[1].phase = "done" /\ call[1].ret = TRUE
    /\ call[2].op = "mark_pending" /\ call[2].phase = "done" /\ call[2].ret = FALSE
    /\ Status = "pending"
    /\ Record.error # <<>>
    /\ Record.created_at < Record.updated_at


\* C16: mark_failed(url, reason) sets status failed and error = reason on
\* the record of the URL whatever its status was, and keeps its id, url,
\* data and created_at; with no record of the URL it creates none and leaves
\* the collection unchanged.
C16_MarkFailedUnconditional ==
    [][\A i \in Callers :
          Writes(i, "mark_failed") =>
              IF DocsOf(store, Url) = {}
              THEN store' = store
              ELSE /\ Cardinality(store') = Cardinality(store)
                   /\ RecordAfter.status = "failed"
                   /\ RecordAfter.error = call[i].arg
                   /\ RecordAfter.id = Record.id
                   /\ RecordAfter.url = Record.url
                   /\ RecordAfter.status_code = Record.status_code
                   /\ RecordAfter.created_at = Record.created_at]_vars

\* mark_failed has run on a record that upsert had completed
C16_Witness ==
    /\ \E i \in Callers :
          /\ call[i].op = "mark_failed" /\ call[i].phase = "done"
          /\ Status = "failed"
          /\ Record.error = call[i].arg
          /\ Record.status_code > 0


\* caller i's upsert and the find_by_url after it have returned, and no
\* write of another caller changed the collection in between
UpsertThenFindAlone(i) ==
    call[i].op = "upsert" /\ call[i].phase = "done" /\ ~call[i].mixed

\* C17: whatever the collection held for the URL (nothing, a pending, a
\* failed or a completed record), upsert(u, f) followed immediately by
\* find_by_url(u) returns a record of u that holds the data f and has status
\* completed.
C17_UpsertThenFind ==
    \A i \in Callers :
        UpsertThenFindAlone(i) =>
            /\ call[i].ret # NoDoc
            /\ call[i].ret.url = Url
            /\ call[i].ret.status_code = call[i].arg
            /\ call[i].ret.status = "completed"

\* upsert then find_by_url on a record that was failed before
C17_Witness ==
    \E i \in Callers :
        /\ UpsertThenFindAlone(i)
        /\ call[i].ret # NoDoc
        /\ call[i].ret.status = "completed"
        /\ call[i].ret.error # <<>>
        /\ call[i].ret.created_at < call[i].ret.updated_at


\* C18: every record with status completed has status_code > 0 and
\* created_at <= updated_at.
C18_CompletedWellFormed ==
    \A d \in store :
        d.status = "completed" =>
            d.status_code > 0 /\ d.created_at <= d.updated_at

\* C19: the updated_at of a record never decreases from one write to the
\* next.
C19_UpdatedAtMonotonic ==
    [][\A d \in store : \A e \in store' :
          e.id = d.id => e.updated_at >= d.updated_at]_vars

\* C20: created_at of a record is written by the insert only: no upsert,
\* mark_pending or mark_failed on the URL changes it afterwards, and the
\* insert sets it to the time its call read.
C20_CreatedAtSetOnce ==
    [][/\ \A d \in store : \A e \in store' :
            e.id = d.id => e.created_at = d.created_at
       /\ \A i \in Callers : \A e \in store' :
            (call'[i].phase # call[i].phase /\ \A d \in store : d.id # e.id)
                => e.created_at = call[i].now]_vars

\* both callers have upserted the URL, the second on the completed record of
\* the first, at a later time
C20_Witness ==
    /\ call[1].op = "upsert" /\ call[1].phase = "done" /\ ~call[1].mixed
    /\ call[2].op = "upsert" /\ call[2].phase = "done" /\ ~call[2].mixed
    /\ call[1].now < call[2].now
    /\ call[1].ret.created_at = call[1].now
    /\ call[2].ret.created_at = call[1].now
    /\ call[2].ret.updated_at = call[2].now
    /\ Status = "completed"


\* C21: get_metadata for a URL whose record is completed returns
\* (record, true) and does nothing else: no mark_pending, no enqueue, the
\* store and the topics are unchanged.
C21_CacheHitNoEffect ==
    [][\A r \in Readers :
          (rpc[r] = "idle" /\ rpc'[r] # "idle" /\ Status = "completed") =>
              /\ rpc'[r] = "done"
              /\ rret'[r] = [record |-> Record, found |-> TRUE]
              /\ store' = store
              /\ nMarked' = nMarked /\ nEnqueue' = nEnqueue
              /\ log' = log /\ dlq' = dlq]_vars

\* a get_metadata call returned the completed record; no call has marked
\* the URL pending or enqueued it
C21_Witness ==
    /\ \E r \in Readers :
          rpc[r] = "done" /\ rret[r] = [record |-> Record, found |-> TRUE]
    /\ Status = "completed"
    /\ nMarked = 0 /\ nEnqueue = 0
    /\ \A p \in Partitions : Len(log[p]) = 0


\* C22: a get_metadata call whose mark_pending finds the record already
\* pending issues no enqueue, leaves the record unchanged and returns
\* (none, false); a call goes on to enqueue only when its mark_pending
\* returned true, that is, when it inserted the record or found it failed.
C22_PendingNotReEnqueued ==
    [][\A r \in Readers :
          /\ (rpc[r] = "mark_pending" /\ rpc'[r] # "mark_pending"
                  /\ Status = "pending") =>
                /\ rpc'[r] = "done"
                /\ rret'[r] = NotFound
                /\ store' = store
                /\ nEnqueue' = nEnqueue /\ log' = log
          /\ (rpc[r] # "enqueue" /\ rpc'[r] = "enqueue") =>
                /\ rpc[r] = "mark_pending"
                /\ Status \in {"none", "failed"}
                /\ nMarked' = nMarked + 1
          /\ nEnqueue' # nEnqueue => \E q \in Readers : rpc[q] = "enqueue"]_vars

\* the second get_metadata call found the record pending, with the task of
\* the first still on the topic, and returned without a second enqueue
C22_Witness ==
    /\ \A r \in Readers : rpc[r] = "done" /\ rret[r] = NotFound
    /\ Status = "pending"
    /\ nMarked = 1 /\ nEnqueue = 1
    /\ TaskOnTopic
    /\ Cardinality(Readers) >= 2


\* C23: a get_metadata call whose mark_pending finds the record failed makes
\* it pending and goes on to one enqueue call; the message it publishes
\* names the URL and counts as retry 0, and the consumer that polls it
\* starts from retry count 0.
C23_FailedIsRescheduled ==
    [][/\ \A r \in Readers :
            /\ (rpc[r] = "mark_pending" /\ rpc'[r] # "mark_pending"
                    /\ Status = "failed") =>
                  /\ rpc'[r] = "enqueue"
                  /\ nMarked' = nMarked + 1
                  /\ store' = {[Record EXCEPT !.status = "pending"]}
            /\ (rpc[r] = "enqueue" /\ rpc'[r] = "done") =>
                  /\ nEnqueue' = nEnqueue + 1
                  /\ \A p \in Partitions :
                        \/ log'[p] = log[p]
                        \/ /\ Len(log'[p]) = Len(log[p]) + 1
                           /\ HasUrl(log'[p][Len(log'[p])])
                           /\ log'[p][Len(log'[p])].url = Url
                           /\ RetryCountOf(log'[p][Len(log'[p])]) = 0
       /\ nEnqueue' <= nMarked'
       /\ \A c \in Partitions :
            (pos'[c] = pos[c] + 1 /\ log[c][pos'[c]] = EnqueueMsg(Url))
                => cur'[c].rc = 0]_vars

\* the URL was dead-lettered and marked failed, a later get_metadata call
\* marked it pending and enqueued it again, and a consumer took that task
\* with retry count 0
C23_Witness ==
    \E c \in Partitions :
        /\ nMarked = 2 /\ nEnqueue = 2
        /\ Len(dlq) >= 1
        /\ cur[c].off >= 2
        /\ log[c][cur[c].off] = EnqueueMsg(Url)
        /\ cur[c].rc = 0


\* C24: when the fetch succeeded, create_metadata has called upsert once
\* with the canonical URL and returns a record of that URL with status
\* completed.
C24_CreateReturnsCompleted ==
    \A k \in Creators :
        (cpc[k] = "done" /\ cret[k].kind = "returned") =>
            /\ cret[k].record # NoDoc
            /\ cret[k].record.url = Url
            /\ cret[k].record.status = "completed"


\* errors fetch_url raises for the answers of the site
FetchErrors ==
    {ErrorText(fetch_url(code)) : code \in PERMANENT_STATUS_CODES \cup TRANSIENT_STATUS_CODES}

\* C25: when the fetch fails, create_metadata ends with the error of the
\* fetcher, unchanged, and the step changes neither the store nor the
\* topics: no upsert, no mark_failed, no mark_pending, no publish.
C25_FetchErrorPropagates ==
    [][\A k \in Creators :
          (cpc[k] = "idle" /\ cpc'[k] = "done") =>
              /\ cret'[k].kind = "raised"
              /\ cret'[k].error \in FetchErrors
              /\ store' = store
              /\ log' = log /\ dlq' = dlq /\ committed' = committed
              /\ nMarked' = nMarked /\ nEnqueue' = nEnqueue]_vars

\* create_metadata raised the permanent failure of the fetcher on a URL
\* whose record a read had left pending
C25_Witness ==
    /\ \E k \in Creators :
          /\ cpc[k] = "done" /\ cret[k].kind = "raised"
          /\ cret[k].error = ErrorText(fetch_url(404))
    /\ Status = "pending"
    /\ dlq = <<>>


\* C26: a polled message whose payload is malformed or lacks a non-empty
\* url causes no fetch, no store write, no publish and no commit, and the
\* loop goes on to the next poll.
C26_MalformedSkipped ==
    [][\A c \in Partitions :
          (pc[c] = "poll" /\ pos'[c] = pos[c] + 1 /\ ~HasUrl(log[c][pos'[c]])) =>
              /\ store' = store
              /\ log' = log /\ dlq' = dlq
              /\ committed' = committed
              /\ cur' = cur
              /\ pc'[c] = "poll"]_vars


\* ------------------------------------------------------------------------
\* fetch_url on its own
\* ------------------------------------------------------------------------
StatusCodes == MinStatus..MaxStatus

\* classes of httpx.TimeoutException
TimeoutExceptions == {"ConnectTimeout", "ReadTimeout", "WriteTimeout", "PoolTimeout"}

\* the other classes of httpx.HTTPError that client.get raises
OtherHTTPErrors == {"ReadError", "WriteError", "RemoteProtocolError", "ProxyError"}

\* str(exc).lower() of a ConnectError, as the words of the low-level error
DnsTexts ==
    {<<"[errno -2]", "name or service not known">>,
     <<"[errno 8]", "nodename nor servname", "provided, or not known">>,
     <<"[errno -5]", "no address associated", "with hostname">>,
     <<"[errno 11001]", "getaddrinfo failed">>}
RefusedTexts ==
    {<<"[errno 111]", "connection refused">>,
     <<"[errno 104]", "connection reset by peer">>,
     <<"all connection attempts failed">>}
TlsTexts ==
    {<<"[ssl: certificate_verify_failed]", "certificate verify failed:",
       "self-signed certificate">>,
     <<"[ssl: certificate_verify_failed]", "certificate verify failed:",
       "hostname mismatch">>}

\* what client.get raises for a fetch that ends without a final response:
\* the failure, the exception class, and the text of the exception
FetchFailures ==
    [failure : {"timeout"}, exc : TimeoutExceptions, text : {<<"timed out">>}]
    \cup [failure : {"too_many_redirects"}, exc : {"TooManyRedirects"},
          text : {<<"exceeded maximum allowed redirects">>}]
    \cup [failure : {"dns"}, exc : {"ConnectError"}, text : DnsTexts]
    \cup [failure : {"refused_or_reset"}, exc : {"ConnectError"}, text : RefusedTexts]
    \cup [failure : {"tls_verification"}, exc : {"ConnectError"}, text : TlsTexts]
    \cup [failure : {"other_io"}, exc : OtherHTTPErrors,
          text : {<<"server disconnected without sending a response">>}]

FetchInputs == [response : StatusCodes] \cup FetchFailures

\* the substrings looked for in the text of a ConnectError
DnsPhrases ==
    {"name or service not known", "nodename nor servname",
     "no address associated", "getaddrinfo failed"}

\* "<phrase>" in error_str, for one of the phrases
HasDnsPhrase(text) == \E i \in DOMAIN text : text[i] \in DnsPhrases

\* the except clauses of fetch_url, in their order
fetch_url_except(e) ==
    IF e.exc \in TimeoutExceptions
    THEN [kind |-> "transient", code |-> 0]
    ELSE IF e.exc = "TooManyRedirects"
    THEN [kind |-> "permanent", code |-> 0]
    ELSE IF e.exc = "ConnectError"
    THEN IF HasDnsPhrase(e.text)
         THEN [kind |-> "permanent", code |-> 0]
         ELSE [kind |-> "transient", code |-> 0]
    ELSE [kind |-> "transient", code |-> 0]

\* the service at rest: nothing stored, nothing queued, no call under way
AtRest ==
    /\ store = {}
    /\ log = [p \in Partitions |-> <<>>]
    /\ committed = [p \in Partitions |-> 0]
    /\ dlq = <<>>
    /\ pc = [p \in Partitions |-> "poll"]
    /\ pos = [p \in Partitions |-> 0]
    /\ cur = [p \in Partitions |-> NoMsg]
    /\ rpc = [r \in Readers |-> "idle"]
    /\ rret = [r \in Readers |-> <<>>]
    /\ cpc = [k \in Creators |-> "idle"]
    /\ cret = [k \in Creators |-> <<>>]
    /\ faults = 0
    /\ nparts = 1
    /\ nMarked = 0
    /\ nEnqueue = 0
    /\ ndeliv = [p \in Partitions |-> <<>>]
    /\ clock = 0
    /\ call = [i \in Callers |-> NoCall]

FetchInit ==
    /\ AtRest
    /\ given \in FetchInputs
    /\ result = <<>>
    /\ life = NoLife

\* await fetch_url(url), the GET ending as given says
FetchUrl ==
    /\ result = <<>>
    /\ result' = IF "response" \in DOMAIN given
                 THEN fetch_url(given.response)
                 ELSE fetch_url_except(given)
    /\ UNCHANGED <<store, clock, call, given, log, committed, dlq, pc, pos, cur,
                   rpc, rret, cpc, cret, faults, nparts, nMarked, nEnqueue, ndeliv, life>>

FetchNext == FetchUrl

FetchSpec == FetchInit /\ [][FetchNext]_vars

\* fetch_url has returned or raised for a final response
Responded == result # <<>> /\ "response" \in DOMAIN given

\* fetch_url has raised for a GET that ended without a response
Failed(failure) ==
    result # <<>> /\ "failure" \in DOMAIN given /\ given.failure = failure

\* C28: for every final status code fetch_url gives one outcome: permanent
\* failure exactly for 400, 401, 403, 404, 405, 406, 410, 414 and 451,
\* transient failure exactly for 408, 429, 500, 502, 503 and 504, and success
\* carrying the status code for every other code; the two sets are disjoint.
C28_StatusClassification ==
    LET P == {400, 401, 403, 404, 405, 406, 410, 414, 451}
        T == {408, 429, 500, 502, 503, 504} IN
    /\ PERMANENT_STATUS_CODES \cap TRANSIENT_STATUS_CODES = {}
    /\ Responded =>
          LET code == given.response IN
          /\ result.kind \in {"permanent", "transient", "ok"}
          /\ result.kind = "permanent" <=> code \in P
          /\ result.kind = "transient" <=> code \in T
          /\ result.kind = "ok" <=> code \notin P \cup T
          /\ result.kind = "ok" => result.code = code

C28_Witness ==
    /\ Responded
    /\ given.response = 302
    /\ result = [kind |-> "ok", code |-> 302]

\* C29: a fetch that ends without a final response is a permanent failure
\* when the cause is a DNS resolution failure, a TLS verification failure or
\* too many redirects, and a transient failure when it is a timeout, a
\* refused or reset connection, or any other I/O error.
C29_FailureClassification ==
    /\ \A f \in {"dns", "tls_verification", "too_many_redirects"} :
          Failed(f) => result.kind = "permanent"
    /\ \A f \in {"timeout", "refused_or_reset", "other_io"} :
          Failed(f) => result.kind = "transient"

\* ------------------------------------------------------------------------
\* normalize_url on its own
\* ------------------------------------------------------------------------
\* A URL is a sequence of lexemes: a scheme with its "://", the parts of the
\* authority (userinfo with its "@", host, port with its ":"), and single
\* characters after it; a percent escape is one lexeme.
SchemeLexemes == {"http://", "https://", "HTTP://"}
HostLexemes == {"h", "H"}
PortLexemes == {":80", ":443", ":8080"}
UserLexeme == "u@"
TailChars == {"a", "A", "/", ";", "?", "&", "=", "#"}

\* str.lower() of a lexeme
Lower(x) ==
    CASE x = "HTTP://" -> "http://"
      [] x = "H" -> "h"
      [] OTHER -> x

\* int(port) of a port lexeme
PortNumber(x) ==
    CASE x = ":80" -> 80
      [] x = ":443" -> 443
      [] x = ":8080" -> 8080

\* quote_plus of a character: letters are safe
Quote(x) ==
    CASE x = ";" -> "%3B"
      [] x = "/" -> "%2F"
      [] x = "?" -> "%3F"
      [] x = "=" -> "%3D"
      [] x = "&" -> "%26"
      [] x = "#" -> "%23"
      [] OTHER -> x

\* unquote of a lexeme
Unquote(x) ==
    CASE x = "%3B" -> ";"
      [] x = "%2F" -> "/"
      [] x = "%3F" -> "?"
      [] x = "%3D" -> "="
      [] x = "%26" -> "&"
      [] x = "%23" -> "#"
      [] OTHER -> x

\* ord() of a character
Ord(x) ==
    CASE x = "#" -> 35
      [] x = "&" -> 38
      [] x = "/" -> 47
      [] x = ";" -> 59
      [] x = "=" -> 61
      [] x = "?" -> 63
      [] x = "A" -> 65
      [] x = "a" -> 97

\* quote_plus and unquote of a string
QuoteAll(s) == [i \in DOMAIN s |-> Quote(s[i])]
UnquoteAll(s) == [i \in DOMAIN s |-> Unquote(s[i])]

\* s.find(x), counted from 1; 0 when x is not in s
Find(s, x) ==
    IF \E i \in DOMAIN s : s[i] = x
    THEN CHOOSE i \in DOMAIN s : s[i] = x /\ \A j \in 1..(i - 1) : s[j] # x
    ELSE 0

\* s.rfind(x)
RFind(s, x) ==
    IF \E i \in DOMAIN s : s[i] = x
    THEN CHOOSE i \in DOMAIN s : s[i] = x /\ \A j \in (i + 1)..Len(s) : s[j] # x
    ELSE 0

\* s.find(x, from)
FindFrom(s, x, from) ==
    IF \E i \in from..Len(s) : s[i] = x
    THEN CHOOSE i \in from..Len(s) : s[i] = x /\ \A j \in from..(i - 1) : s[j] # x
    ELSE 0

Before(s, i) == SubSeq(s, 1, i - 1)
After(s, i) == SubSeq(s, i + 1, Len(s))

\* s.split(x, 1): what stands before the first x and what stands after it
Cut(s, x) ==
    IF Find(s, x) = 0 THEN <<s, <<>>>>
    ELSE <<Before(s, Find(s, x)), After(s, Find(s, x))>>

RECURSIVE Split(_, _)
\* s.split(x)
Split(s, x) ==
    IF Find(s, x) = 0 THEN <<s>>
    ELSE <<Before(s, Find(s, x))>> \o Split(After(s, Find(s, x)), x)

RECURSIVE RStrip(_, _)
\* s.rstrip(x)
RStrip(s, x) ==
    IF s # <<>> /\ s[Len(s)] = x THEN RStrip(Before(s, Len(s)), x) ELSE s

\* urllib.parse._splitparams: the parameters of the last path segment
SplitParams(url) ==
    LET i == IF Find(url, "/") # 0
             THEN FindFrom(url, ";", RFind(url, "/"))
             ELSE Find(url, ";") IN
    IF i = 0 THEN <<url, <<>>>> ELSE <<Before(url, i), After(url, i)>>

\* urlparse: the scheme lexeme (lowercased), the authority up to the first
\* of "/", "?" and "#", then fragment, query and parameters cut off in
\* this order
urlparse(url) ==
    LET rest == Tail(url)
        ends == {i \in DOMAIN rest : rest[i] \in {"/", "?", "#"}}
        n == IF ends = {} THEN Len(rest) + 1
             ELSE CHOOSE i \in ends : \A j \in ends : i <= j
        f == Cut(After(rest, n - 1), "#")
        q == Cut(f[1], "?")
        p == IF Find(q[1], ";") # 0 THEN SplitParams(q[1]) ELSE <<q[1], <<>>>> IN
    [scheme |-> Lower(url[1]), netloc |-> Before(rest, n),
     path |-> p[1], params |-> p[2], query |-> q[2], fragment |-> f[2]]

\* ParseResult.hostname: without userinfo and port, lowercased
Hostname(netloc) ==
    LET hs == {i \in DOMAIN netloc : netloc[i] \in HostLexemes} IN
    IF hs = {} THEN <<>> ELSE <<Lower(netloc[CHOOSE i \in hs : TRUE])>>

\* ParseResult.port: 0 stands for None
Port(netloc) ==
    LET ps == {i \in DOMAIN netloc : netloc[i] \in PortLexemes} IN
    IF ps = {} THEN 0 ELSE PortNumber(netloc[CHOOSE i \in ps : TRUE])

PortLexeme(port) == CHOOSE x \in PortLexemes : PortNumber(x) = port

\* one "name=value" of the query: split at the first "=", both unquoted
NameValue(nv) ==
    [name |-> UnquoteAll(Cut(nv, "=")[1]),
     value |-> UnquoteAll(Cut(nv, "=")[2])]

RECURSIVE Pairs(_)
\* parse_qsl(query, keep_blank_values=True): empty fields are left out
Pairs(fields) ==
    IF fields = <<>> THEN <<>>
    ELSE (IF Head(fields) = <<>> THEN <<>> ELSE <<NameValue(Head(fields))>>)
         \o Pairs(Tail(fields))

\* [(k, v[0]) for k, v in parse_qs(...).items()]: one pair for every name,
\* at the place of its first field and with the value of its first field
FirstValue(pairs) ==
    LET first(i) == \A j \in 1..(i - 1) : pairs[j].name # pairs[i].name
        RECURSIVE keep(_)
        keep(i) == IF i > Len(pairs) THEN <<>>
                   ELSE (IF first(i) THEN <<pairs[i]>> ELSE <<>>) \o keep(i + 1) IN
    keep(1)

RECURSIVE StrLess(_, _)
\* a < b for two strings
StrLess(a, b) ==
    IF b = <<>> THEN FALSE
    ELSE IF a = <<>> THEN TRUE
    ELSE IF Ord(Head(a)) # Ord(Head(b)) THEN Ord(Head(a)) < Ord(Head(b))
    ELSE StrLess(Tail(a), Tail(b))

RECURSIVE Sorted(_)
\* sorted(pairs, key=lambda x: x[0])
Sorted(pairs) ==
    IF pairs = <<>> THEN <<>>
    ELSE LET least == CHOOSE i \in DOMAIN pairs :
                          \A j \in DOMAIN pairs :
                              j # i => /\ ~StrLess(pairs[j].name, pairs[i].name)
                                       /\ (pairs[j].name = pairs[i].name => i < j)
             rest == [k \in 1..(Len(pairs) - 1) |->
                          IF k < least THEN pairs[k] ELSE pairs[k + 1]] IN
         <<pairs[least]>> \o Sorted(rest)

RECURSIVE urlencode(_)
\* urlencode of a list of pairs
urlencode(pairs) ==
    IF pairs = <<>> THEN <<>>
    ELSE QuoteAll(Head(pairs).name) \o <<"=">> \o QuoteAll(Head(pairs).value)
         \o (IF Len(pairs) > 1 THEN <<"&">> ELSE <<>>) \o urlencode(Tail(pairs))

\* urlunparse((scheme, netloc, path, "", query, ""))
urlunparse(scheme, netloc, path, query) ==
    <<scheme>> \o netloc
    \o (IF path # <<>> /\ Head(path) # "/" THEN <<"/">> ELSE <<>>) \o path
    \o (IF query # <<>> THEN <<"?">> \o query ELSE <<>>)

\* the path without its trailing slashes; "/" for an empty path
CleanPath(path) ==
    LET p == IF path # <<"/">> /\ path # <<>> /\ path[Len(path)] = "/"
             THEN RStrip(path, "/") ELSE path IN
    IF p = <<>> THEN <<"/">> ELSE p

normalize_url(url) ==
    LET u == IF url # <<>> /\ Lower(Head(url)) \in {"http://", "https://"}
             THEN url ELSE <<"https://">> \o url
        parsed == urlparse(u)
        scheme == Lower(parsed.scheme)
        hostname == Hostname(parsed.netloc)
        port == IF \/ scheme = "http://" /\ Port(parsed.netloc) = 80
                   \/ scheme = "https://" /\ Port(parsed.netloc) = 443
                THEN 0 ELSE Port(parsed.netloc)
        netloc == IF port # 0 THEN hostname \o <<PortLexeme(port)>> ELSE hostname
        query_params == FirstValue(Pairs(Split(parsed.query, "&")))
        sorted_query == urlencode(Sorted(query_params)) IN
    urlunparse(scheme, netloc, CleanPath(parsed.path), sorted_query)

RECURSIVE Texts(_, _)
\* the sequences over S of length n
Texts(S, n) ==
    IF n = 0 THEN {<<>>}
    ELSE {<<x>> \o t : x \in S, t \in Texts(S, n - 1)}

\* what follows the authority: nothing, or a path, query or fragment
Tails ==
    {<<>>} \cup UNION {{<<x>> \o t : x \in {"/", "?", "#"}, t \in Texts(TailChars, n)} :
                        n \in 0..(MaxTail - 1)}

Authorities ==
    {<<h>> : h \in HostLexemes}
    \cup {<<UserLexeme, "h">>}
    \cup {<<"h", p>> : p \in PortLexemes}

\* the URLs given to normalize_url: with and without a scheme
Urls ==
    {s \o a \o t : s \in {<<>>} \cup {<<x>> : x \in SchemeLexemes},
                   a \in Authorities, t \in Tails}

UrlInit ==
    /\ AtRest
    /\ given \in Urls
    /\ result = <<>>
    /\ life = NoLife

\* canonical = normalize_url(url)
Normalize ==
    /\ result = <<>>
    /\ result' = <<normalize_url(given)>>
    /\ UNCHANGED <<store, clock, call, given, log, committed, dlq, pc, pos, cur,
                   rpc, rret, cpc, cret, faults, nparts, nMarked, nEnqueue, ndeliv, life>>

\* normalize_url applied to a URL that normalize_url returned
NormalizeAgain ==
    /\ Len(result) = 1
    /\ result' = Append(result, normalize_url(result[1]))
    /\ UNCHANGED <<store, clock, call, given, log, committed, dlq, pc, pos, cur,
                   rpc, rret, cpc, cret, faults, nparts, nMarked, nEnqueue, ndeliv, life>>

UrlNext == Normalize \/ NormalizeAgain

UrlSpec == UrlInit /\ [][UrlNext]_vars

\* the parts of a URL as written: scheme lexeme (or none), authority, and
\* the path, query and fragment after it
SchemeOf(u) == IF u # <<>> /\ Head(u) \in SchemeLexemes THEN <<Head(u)>> ELSE <<>>
NoScheme(u) == IF SchemeOf(u) = <<>> THEN u ELSE Tail(u)
AuthorityEnd(u) ==
    LET r == NoScheme(u)
        ends == {i \in DOMAIN r : r[i] \in {"/", "?", "#"}} IN
    IF ends = {} THEN Len(r) ELSE (CHOOSE i \in ends : \A j \in ends : i <= j) - 1
AuthorityOf(u) == SubSeq(NoScheme(u), 1, AuthorityEnd(u))
TailOf(u) == SubSeq(NoScheme(u), AuthorityEnd(u) + 1, Len(NoScheme(u)))
NoFragment(t) == Cut(t, "#")[1]
PathOf(u) == Cut(NoFragment(TailOf(u)), "?")[1]
HasQuery(u) == Find(NoFragment(TailOf(u)), "?") # 0
QueryOf(u) == Cut(NoFragment(TailOf(u)), "?")[2]
FragmentPart(u) ==
    IF Find(TailOf(u), "#") = 0 THEN <<>>
    ELSE SubSeq(TailOf(u), Find(TailOf(u), "#"), Len(TailOf(u)))
QueryPart(u) == IF HasQuery(u) THEN <<"?">> \o QueryOf(u) ELSE <<>>

RECURSIVE JoinFields(_)
\* "&".join(fields)
JoinFields(fields) ==
    IF fields = <<>> THEN <<>>
    ELSE Head(fields) \o (IF Len(fields) > 1 THEN <<"&">> ELSE <<>>)
         \o JoinFields(Tail(fields))

Reverse(s) == [i \in DOMAIN s |-> s[Len(s) + 1 - i]]

\* the query names of u are all different
DistinctNames(u) ==
    LET ps == Pairs(Split(QueryOf(u), "&")) IN
    \A i, j \in DOMAIN ps : ps[i].name = ps[j].name => i = j

\* spellings of the logical URL u that differ from it in the letter case
\* of scheme or host, in a missing scheme where u says https://, in an
\* explicit default port, in a fragment, or in the order of the query
\* parameters
SameUrlSpellings(u) ==
    LET s == SchemeOf(u)
        a == AuthorityOf(u)
        t == TailOf(u)
        secure == s = <<>> \/ s = <<"https://">> IN
    {s \o [i \in DOMAIN a |-> IF a[i] = "h" THEN "H" ELSE Lower(a[i])] \o t}
    \cup (IF s = <<"http://">> THEN {<<"HTTP://">> \o a \o t} ELSE {})
    \cup (IF s = <<"HTTP://">> THEN {<<"http://">> \o a \o t} ELSE {})
    \cup (IF s = <<"https://">> THEN {a \o t} ELSE {})
    \cup (IF s = <<>> THEN {<<"https://">> \o a \o t} ELSE {})
    \cup (IF \A i \in DOMAIN a : a[i] \notin PortLexemes
          THEN {s \o a \o <<IF secure THEN ":443" ELSE ":80">> \o t} ELSE {})
    \cup {s \o a \o NoFragment(t), s \o a \o NoFragment(t) \o <<"#", "a">>}
    \cup (IF DistinctNames(u)
          THEN {s \o a \o PathOf(u) \o <<"?">>
                  \o JoinFields(Reverse(Split(QueryOf(u), "&"))) \o FragmentPart(u)}
          ELSE {})

\* u with one trailing slash added to its path, when the path is not the root
WithTrailingSlash(u) ==
    LET p == PathOf(u) IN
    IF p # <<>> /\ p[Len(p)] # "/"
    THEN {SchemeOf(u) \o AuthorityOf(u) \o p \o <<"/">> \o QueryPart(u)
              \o FragmentPart(u)}
    ELSE {}

Letters(s) == SelectSeq(s, LAMBDA x : x \in {"a", "A"})

\* C31: the spellings of one logical URL (letter case of scheme and host,
\* missing scheme for https://, explicit default port, fragment, order of the
\* query parameters, one trailing slash on a non-root path) are given the
\* same key, and a non-default port and the letter case of the path are kept.
C31_VariantsSameKey ==
    result # <<>> =>
        /\ \A v \in SameUrlSpellings(given) \cup WithTrailingSlash(given) :
               normalize_url(v) = result[1]
        /\ (\E i \in DOMAIN given : given[i] = ":8080")
               => \E i \in DOMAIN result[1] : result[1][i] = ":8080"
        /\ LET kept == Letters(PathOf(result[1])) IN
           kept = SubSeq(Letters(PathOf(given)), 1, Len(kept))

\* C30: normalize_url is idempotent: applied to its own result it returns
\* that result.
C30_NormalizeIdempotent ==
    Len(result) = 2 => result[2] = result[1]

\* ------------------------------------------------------------------------
\* the upsert of process_url raised after a fetch that returned data, and the
\* except block that took the exception has made its publish call
StoreFailureHandled(c) ==
    /\ cur[c].off > 0
    /\ cur[c].data # 0
    /\ cur[c].kind \notin {"none", "ok", "commit_failure"}
    /\ pc[c] \in {"mark_failed", "commit"} \/ Finished(c)

\* C27: a store failure raised by upsert after a successful fetch is handled
\* like a transient collection failure: with n = r + 1 the task is
\* re-published to the main topic with retry count n when n < max_retries,
\* and dead-lettered with retry count n otherwise.
C27_StoreFailureAsTransient ==
    \A c \in Partitions :
        StoreFailureHandled(c) =>
            LET h == cur[c]
                n == h.rc + 1 IN
            /\ h.kind = "store_failure"
            /\ IF RetriesExhausted(n)
               THEN /\ h.main = <<>>
                    /\ Len(h.dead) = 1
                    /\ h.dead[1].msg = DlqMsg(h.url, n, DatabaseErrorText)
               ELSE /\ h.dead = <<>>
                    /\ Len(h.main) = 1
                    /\ h.main[1].msg = RetryMsg(h.url, n)

C27_Witness ==
    \E c \in Partitions :
        /\ StoreFailureHandled(c)
        /\ Finished(c)
        /\ cur[c].rc = 0
        /\ cur[c].main = <<[msg |-> RetryMsg(Url, 1), ok |-> TRUE]>>
        /\ cur[c].dead = <<>>
        /\ committed[c] = cur[c].off

\* ------------------------------------------------------------------------
\* Lifecycle: lifespan, start_consumer, stop_consumer and the consumer task
\* ------------------------------------------------------------------------
\* connect_to_mongo(max_retries=5)
connect_max_retries == 5

StartupOrder ==
    <<"connect_to_mongo", "ensure_indexes", "ensure_topics", "init_producer",
      "start_consumer">>

ShutdownOrder_ProducerFirst == <<"close_producer", "stop_consumer", "close_mongo">>

ShutdownOrder == <<"stop_consumer", "close_producer", "close_mongo">>

\* the calls of lifespan, "yield" standing for the time the service runs
Lifespan == StartupOrder \o <<"yield">> \o ShutdownOrder

\* the call lifespan makes next
NextCall == IF life.at <= Len(Lifespan) THEN Lifespan[life.at] ELSE "end"

\* an asyncio task of _consume_loop that has not run yet
NewTask ==
    [st |-> "created", cancel |-> FALSE, opened |-> FALSE, closes |-> 0,
     handled |-> 0, stopAt |-> "no", late |-> 0]

Tasks == 1..MaxTasks

StopCancels_EventOnly == FALSE

\* stop_consumer calls _consumer_task.cancel() after setting the event
StopCancels == TRUE

AlreadyRunning_Never(l) == FALSE

\* _consumer_task is not None and not _consumer_task.done()
AlreadyRunning(l) == l.ref # 0 /\ l.tasks[l.ref].st # "done"

\* start_consumer
start_consumer(l) ==
    IF AlreadyRunning(l) THEN l
    ELSE [l EXCEPT !.event = "unset",
                   !.tasks = Append(@, NewTask),
                   !.ref = Len(l.tasks) + 1]

\* stop_consumer up to its await: who is the caller that waits
stop_consumer(l, who) ==
    IF l.ref = 0 \/ l.tasks[l.ref].st = "done" THEN l
    ELSE [l EXCEPT !.event = "set",
                   !.tasks[l.ref].cancel = StopCancels,
                   !.tasks[l.ref].stopAt = l.tasks[l.ref].st,
                   !.waiting = who]

\* a call of lifespan has returned
Returned(l, name) == [l EXCEPT !.at = @ + 1, !.done = Append(@, name)]

serviceVars ==
    <<store, log, committed, dlq, pc, pos, cur, rpc, rret, cpc, cret, faults,
      nparts, nMarked, nEnqueue, ndeliv, clock, call, given, result>>

LifeInit ==
    /\ AtRest
    /\ given = <<>>
    /\ result = <<>>
    /\ life = [at |-> 1, aborted |-> FALSE, attempts |-> 0, client |-> FALSE,
               indexes |-> FALSE, topics |-> FALSE, producer |-> FALSE,
               ref |-> 0, event |-> "none", tasks |-> <<>>, waiting |-> "none",
               calls |-> 0, done |-> <<>>]

\* lifespan is between two calls and has not raised
Ready(name) ==
    /\ ~life.aborted
    /\ life.waiting = "none"
    /\ NextCall = name

\* await connect_to_mongo(): one attempt; the last failed attempt raises
ConnectToMongo ==
    /\ Ready("connect_to_mongo")
    /\ \/ life' = Returned([life EXCEPT !.client = TRUE, !.attempts = @ + 1],
                           "connect_to_mongo")
       \/ /\ life.attempts + 1 < connect_max_retries
          /\ life' = [life EXCEPT !.attempts = @ + 1]
       \/ /\ life.attempts + 1 = connect_max_retries
          /\ life' = [life EXCEPT !.attempts = @ + 1, !.aborted = TRUE]
    /\ UNCHANGED serviceVars

\* await ensure_indexes(): get_database raises without a connection
EnsureIndexes ==
    /\ Ready("ensure_indexes")
    /\ life' = IF life.client
               THEN Returned([life EXCEPT !.indexes = TRUE], "ensure_indexes")
               ELSE [life EXCEPT !.aborted = TRUE]
    /\ UNCHANGED serviceVars

\* ensure_topics()
EnsureTopics ==
    /\ Ready("ensure_topics")
    /\ life' = Returned([life EXCEPT !.topics = TRUE], "ensure_topics")
    /\ UNCHANGED serviceVars

\* init_producer()
InitProducer ==
    /\ Ready("init_producer")
    /\ life' = Returned([life EXCEPT !.producer = TRUE], "init_producer")
    /\ UNCHANGED serviceVars

\* await start_consumer() in lifespan
StartConsumer ==
    /\ Ready("start_consumer")
    /\ life' = Returned(start_consumer(life), "start_consumer")
    /\ UNCHANGED serviceVars

\* the service runs; the shutdown begins
Yield ==
    /\ Ready("yield")
    /\ life' = [life EXCEPT !.at = @ + 1]
    /\ UNCHANGED serviceVars

\* await stop_consumer() in lifespan, up to await _consumer_task
StopConsumer ==
    /\ Ready("stop_consumer")
    /\ LET l == stop_consumer(life, "lifespan") IN
       life' = IF l.waiting = "none" THEN Returned(l, "stop_consumer") ELSE l
    /\ UNCHANGED serviceVars

\* stop_consumer after await _consumer_task: the references are dropped
StopConsumerReturn ==
    /\ life.waiting # "none"
    /\ life.tasks[life.ref].st = "done"
    /\ LET l == [life EXCEPT !.ref = 0, !.event = "none", !.waiting = "none"] IN
       life' = IF life.waiting = "lifespan" THEN Returned(l, "stop_consumer") ELSE l
    /\ UNCHANGED serviceVars

\* close_producer()
CloseProducer ==
    /\ Ready("close_producer")
    /\ life' = Returned([life EXCEPT !.producer = FALSE], "close_producer")
    /\ UNCHANGED serviceVars

\* await close_mongo()
CloseMongo ==
    /\ Ready("close_mongo")
    /\ life' = Returned([life EXCEPT !.client = FALSE], "close_mongo")
    /\ UNCHANGED serviceVars

\* start_consumer called once more while the service runs
CallStart ==
    /\ Ready("yield")
    /\ life.calls < MaxCalls
    /\ AlreadyRunning(life) \/ Len(life.tasks) < MaxTasks
    /\ life' = [start_consumer(life) EXCEPT !.calls = @ + 1]
    /\ UNCHANGED serviceVars

\* stop_consumer called while the service runs
CallStop ==
    /\ Ready("yield")
    /\ life.calls < MaxCalls
    /\ life' = [stop_consumer(life, "caller") EXCEPT !.calls = @ + 1]
    /\ UNCHANGED serviceVars

\* finally: consumer.close(), and the task is done
Closed(t) == [t EXCEPT !.st = "done", !.closes = @ + 1]

\* while not _shutdown_event.is_set(): the event is the module's global at
\* the time of the test, and None has no is_set
LoopTop(t) == IF life.event = "unset" THEN [t EXCEPT !.st = "poll"] ELSE Closed(t)

\* the task runs for the first time: a cancelled task never runs its body
TaskStart(k) ==
    /\ k <= Len(life.tasks)
    /\ life.tasks[k].st = "created"
    /\ life' = [life EXCEPT !.tasks[k] =
                   IF @.cancel THEN [@ EXCEPT !.st = "done"]
                   ELSE LoopTop([@ EXCEPT !.opened = TRUE])]
    /\ UNCHANGED serviceVars

\* poll returned: nothing to handle (no message, EOF, error, a payload
\* that is skipped), or a message that is handled
TaskPoll(k) ==
    /\ k <= Len(life.tasks)
    /\ life.tasks[k].st = "poll"
    /\ ~life.tasks[k].cancel
    /\ \/ life' = [life EXCEPT !.tasks[k] = LoopTop(@)]
       \/ /\ life.tasks[k].handled < MaxHandled
          /\ life' = [life EXCEPT !.tasks[k] =
                         [@ EXCEPT !.st = "handling",
                                   !.late = IF life.tasks[k].stopAt # "no"
                                            THEN @ + 1 ELSE @]]
    /\ UNCHANGED serviceVars

\* the handling of a message came to its end, or raised out of the loop
TaskHandled(k) ==
    /\ k <= Len(life.tasks)
    /\ life.tasks[k].st = "handling"
    /\ ~life.tasks[k].cancel
    /\ \/ life' = [life EXCEPT !.tasks[k] = LoopTop([@ EXCEPT !.handled = @ + 1])]
       \/ life' = [life EXCEPT !.tasks[k] = Closed(@)]
    /\ UNCHANGED serviceVars

\* CancelledError is raised at the await the task stands at
TaskCancelled(k) ==
    /\ k <= Len(life.tasks)
    /\ life.tasks[k].st \in {"poll", "handling"}
    /\ life.tasks[k].cancel
    /\ life' = [life EXCEPT !.tasks[k] = Closed(@)]
    /\ UNCHANGED serviceVars

TaskStep(k) == TaskStart(k) \/ TaskPoll(k) \/ TaskHandled(k) \/ TaskCancelled(k)

LifeNext ==
    \/ ConnectToMongo \/ EnsureIndexes \/ EnsureTopics \/ InitProducer
    \/ StartConsumer \/ Yield \/ StopConsumer \/ StopConsumerReturn
    \/ CloseProducer \/ CloseMongo \/ CallStart \/ CallStop
    \/ \E k \in Tasks : TaskStart(k) \/ TaskPoll(k) \/ TaskHandled(k) \/ TaskCancelled(k)

\* the event loop runs every task that can take a step
\* and every coroutine whose awaited task is done
LifeSpec ==
    /\ LifeInit /\ [][LifeNext]_vars
    /\ \A k \in Tasks : WF_vars(TaskStep(k))
    /\ WF_vars(StopConsumerReturn)

\* the consumer task k exists and is not done
Alive(k) == k \in DOMAIN life.tasks /\ life.tasks[k].st # "done"

IsPrefix(a, b) == Len(a) <= Len(b) /\ a = SubSeq(b, 1, Len(a))

\* C32: lifespan makes its calls in the order store connect, index creation,
\* topic creation, producer initialisation, consumer start, and at shutdown
\* stop consumer, flush-close producer, close store; a consumer task runs
\* only while the producer is initialised and the store is connected.
C32_LifecycleOrder ==
    /\ IsPrefix(life.done,
                <<"connect_to_mongo", "ensure_indexes", "ensure_topics",
                  "init_producer", "start_consumer",
                  "stop_consumer", "close_producer", "close_mongo">>)
    /\ \A k \in Tasks : Alive(k) => life.producer /\ life.client

C32_Witness ==
    /\ Len(life.done) = 8
    /\ ~life.producer /\ ~life.client
    /\ life.tasks # <<>>
    /\ life.tasks[1].opened /\ life.tasks[1].stopAt = "handling"

\* stop_consumer was called while task k was in its loop
StoppedRunning(k) ==
    k \in DOMAIN life.tasks /\ life.tasks[k].stopAt \in {"poll", "handling"}

\* the task is done, its Kafka consumer closed once, and the awaiting
\* stop_consumer has returned
StopReturned(k) ==
    /\ k \in DOMAIN life.tasks
    /\ life.tasks[k].st = "done"
    /\ life.tasks[k].closes = 1
    /\ life.waiting = "none"

\* C33: after stop_consumer is called while the consumer task is blocked in
\* poll or handling a message, the task handles no further message, its
\* Kafka consumer is closed exactly once, and stop_consumer returns, which
\* it does only when the task is done.
C33_StopTerminates ==
    /\ [](\A k \in Tasks :
            StoppedRunning(k) =>
                /\ life.tasks[k].late = 0
                /\ life.tasks[k].closes <= 1
                /\ life.tasks[k].st = "done" => life.tasks[k].closes = 1
                /\ life.tasks[k].st # "done" => life.waiting # "none")
    /\ \A k \in Tasks :
          StoppedRunning(k) ~> StopReturned(k)

C33_Witness ==
    /\ life.tasks # <<>>
    /\ life.tasks[1].stopAt = "poll"
    /\ life.tasks[1].st = "done"
    /\ life.tasks[1].closes = 1
    /\ life.waiting = "none"
    /\ life.ref = 0

\* _consumer_task refers to a task that is not done
RefAlive == life.ref # 0 /\ Alive(life.ref)

\* a call of start_consumer or stop_consumer began and returned in this step
CallReturned ==
    /\ life.waiting = "none" /\ life'.waiting = "none"
    /\ \/ life'.calls # life.calls
       \/ /\ Len(life'.done) > Len(life.done)
          /\ life'.done[Len(life'.done)] \in {"start_consumer", "stop_consumer"}

\* a task is created only when none is running, with a fresh, unset event
TaskCreatedFresh ==
    Len(life'.tasks) > Len(life.tasks) =>
        /\ ~RefAlive
        /\ life'.tasks[Len(life'.tasks)] = NewTask
        /\ life'.ref = Len(life'.tasks)
        /\ life'.event = "unset"

\* the shutdown event is set only for a running task
StopOnlyRunning ==
    (life'.event = "set" /\ life.event # "set") => RefAlive

\* a call that finds no running task and creates none changes nothing
IdleStopNoEffect ==
    (CallReturned /\ ~RefAlive /\ Len(life'.tasks) = Len(life.tasks)) =>
        /\ life'.tasks = life.tasks
        /\ life'.event = life.event
        /\ life'.ref = life.ref

\* C40: at most one consumer task is alive; a task is created only when
\* none is running, and then with a fresh, unset shutdown event; a
\* stop_consumer call that finds no running task changes nothing.
C40_OneConsumerTask ==
    /\ [](Cardinality({k \in Tasks : Alive(k)}) <= 1)
    /\ [][TaskCreatedFresh /\ StopOnlyRunning /\ IdleStopNoEffect]_vars

C40_Witness ==
    /\ Len(life.tasks) = 2
    /\ life.tasks[1].stopAt = "handling"
    /\ life.tasks[1].st = "done"
    /\ life.tasks[2].st = "poll"
    /\ life.ref = 2
    /\ life.event = "unset"
    /\ life.calls = 2

\* ------------------------------------------------------------------------
\* The consumer loop keeps polling
\* ------------------------------------------------------------------------
\* C34: no poll result and no failure while a message is handled makes the
\* consumer loop exit: the loop of a partition is left only by shutdown or
\* cancellation, never by an exception of its own.
C34_LoopKeepsPolling == \A c \in Partitions : pc[c] # "dead"

\* ------------------------------------------------------------------------
\* Success: nothing but the commit
\* ------------------------------------------------------------------------
\* process_url returned for the handling of consumer c
ProcessUrlSucceeded(c) ==
    cur[c].off > 0 /\ cur[c].kind \in {"ok", "commit_failure"}

\* C35: when process_url succeeds for a message, the consumer publishes
\* nothing to the main topic or the DLQ and does not mark the record failed,
\* also when the commit call itself fails.
C35_SuccessOnlyCommits ==
    \A c \in Partitions :
        ProcessUrlSucceeded(c) =>
            /\ cur[c].main = <<>>
            /\ cur[c].dead = <<>>
            /\ cur[c].marks = 0
            /\ cur[c].commits <= 1

\* ------------------------------------------------------------------------
\* upsert returns only after it wrote
\* ------------------------------------------------------------------------
\* upsert of caller i returns an id in this step
UpsertReturns(i) ==
    /\ call[i].op = "upsert"
    /\ call[i].phase \in {"update", "insert"}
    /\ call'[i].phase = "find"

\* the record as the upsert call of caller i writes it
WrittenBy(d, i) ==
    /\ d.url = Url
    /\ d.status = "completed"
    /\ d.status_code = call[i].arg
    /\ d.updated_at = call[i].now

\* C36: whenever upsert(url, data) returns an id without raising, also
\* through its duplicate-key path, the record of url has been written by
\* that call with status completed and the supplied fields.
C36_UpsertReturnsWritten ==
    [][\A i \in Callers :
          UpsertReturns(i) => \E d \in DocsOf(store', Url) : WrittenBy(d, i)]_vars

\* ------------------------------------------------------------------------
\* Failed only after the dead letter
\* ------------------------------------------------------------------------
\* a DLQ message for the URL has been published
DeadLettered == \E i \in DOMAIN dlq : dlq[i].url = Url

\* the last publish_to_dlq call of the handling of consumer c raised
DlqPublishFailed(c) ==
    /\ cur[c].off > 0
    /\ cur[c].dead # <<>>
    /\ ~cur[c].dead[Len(cur[c].dead)].ok

\* the record becomes failed only in the mark_failed step of a handling
\* whose dead letter is on the DLQ
MarkedAfterDlq ==
    (StatusOf(store', Url) = "failed" /\ Status # "failed") =>
        \E c \in Partitions :
            /\ pc[c] = "mark_failed"
            /\ cur[c].dead # <<>>
            /\ cur[c].dead[Len(cur[c].dead)].ok
            /\ cur[c].dead[Len(cur[c].dead)].msg \in {dlq[i] : i \in DOMAIN dlq}

\* the step in which publish_to_dlq raises leaves the collection as it was
FailedPublishKeepsStore ==
    \A p \in Partitions :
        (/\ cur'[p].off > 0
         /\ cur'[p].dead # <<>>
         /\ cur'[p] # cur[p]
         /\ ~cur'[p].dead[Len(cur'[p].dead)].ok) => store' = store

\* C37: a record has status failed only if a DLQ message for its URL was
\* published before it was marked; a handling whose publish_to_dlq raised
\* does not call mark_failed, and the step of the failed publish leaves the
\* record as it was.
C37_FailedOnlyAfterDlq ==
    /\ [](Status = "failed" => DeadLettered)
    /\ [](\A c \in Partitions :
            DlqPublishFailed(c) => (cur[c].marks = 0 /\ pc[c] # "mark_failed"))
    /\ [][MarkedAfterDlq /\ FailedPublishKeepsStore]_vars

\* the record was marked failed after its dead letter was published
C37_Witness ==
    \E c \in Partitions :
        /\ Status = "failed"
        /\ cur[c].marks = 1
        /\ cur[c].dead # <<>>
        /\ cur[c].dead[1].ok
        /\ dlq # <<>>
        /\ dlq[Len(dlq)] = cur[c].dead[1].msg

\* ------------------------------------------------------------------------
\* Retry counts on the topics
\* ------------------------------------------------------------------------
\* the tasks on the main topic: payloads with a url, which only enqueue and
\* publish_with_retry write
TasksOnMain == {log[s[1]][s[2]] : s \in {t \in Slots : HasUrl(log[t[1]][t[2]])}}

\* C38: every message the system puts on the main topic carries a retry
\* count in 0..max_retries-1 (enqueue writes none, which reads as 0), and
\* every DLQ message produced from such messages carries one in
\* 0..max_retries.
C38_RetryCountRanges ==
    /\ kafka_max_retries >= 1
    /\ \A m \in TasksOnMain : RetryCountOf(m) \in 0..(kafka_max_retries - 1)
    /\ \A i \in DOMAIN dlq : dlq[i].retry_count \in 0..kafka_max_retries

\* both upper ends are met: a task with retry count max_retries - 1 and a
\* dead letter with retry count max_retries
C38_Witness ==
    /\ \E m \in TasksOnMain : RetryCountOf(m) = kafka_max_retries - 1
    /\ \E m \in TasksOnMain : "retry_count" \notin DOMAIN m
    /\ \E i \in DOMAIN dlq : dlq[i].retry_count = kafka_max_retries

\* ------------------------------------------------------------------------
\* Retry chains end
\* ------------------------------------------------------------------------
\* no message was handed to a consumer twice
NoRedelivery ==
    \A c \in Partitions : \A o \in DOMAIN ndeliv[c] : ndeliv[c][o] <= 1

\* no publish call of a handling raised and no handling was cut short; a
\* failed publish ends the chain, so the handling it happened in is the
\* last one
NoPublishFailure ==
    \A c \in Partitions :
        cur[c].off > 0 =>
            /\ ~cur[c].died
            /\ \A i \in DOMAIN cur[c].main : cur[c].main[i].ok
            /\ \A i \in DOMAIN cur[c].dead : cur[c].dead[i].ok

\* the one chain of messages that starts from one enqueue: the read path
\* enqueued the URL once and nothing else writes the record
OneChain ==
    /\ nEnqueue = 1 /\ nMarked = 1
    /\ EnqueueMsg(Url) \in TasksOnMain
    /\ \A k \in Creators : cpc[k] = "idle"
    /\ NoRedelivery
    /\ NoPublishFailure

\* a processing of the chain ended in a successful upsert: the record holds
\* fetched data (mark_failed leaves the data in place)
ChainUpserted == DocsOf(store, Url) # {} /\ Record.status_code > 0

NoHandlingUnderWay == \A c \in Partitions : pc[c] = "poll"

\* no task waits on the main topic
NothingLeftOnMain ==
    \A c \in Partitions :
        \A o \in (pos[c] + 1)..Len(log[c]) : ~HasUrl(log[c][o])

\* C39: with no re-delivery and no publish failure, the chain of messages
\* that starts from one enqueue is processed at most max_retries times and
\* ends in exactly one terminal outcome, a successful upsert or one DLQ
\* message, after which no message of the chain remains on the main topic.
C39_RetryChainEnds ==
    OneChain =>
        /\ Processings <= kafka_max_retries
        /\ Len(dlq) <= 1
        /\ ~(ChainUpserted /\ dlq # <<>>)
        /\ (NoHandlingUnderWay /\ (ChainUpserted \/ dlq # <<>>))
               => NothingLeftOnMain
        /\ (NoHandlingUnderWay /\ NothingLeftOnMain)
               => (ChainUpserted \/ dlq # <<>>)

====
